---- MODULE Spec2Model ----
(***************************************************************************)
(* Model of BankStatementExtractor (src/pdf-extractor.js): the regex       *)
(* strategies and the line scan of parseTransactions, the debit/credit     *)
(* classifier, the category classifier and processTransactions; of the     *)
(* methods of AITransactionExtractor (src/unnamed/part_000) that call the  *)
(* chat completions service; and of the handler of                         *)
(* POST /api/extract-transactions (src/server.js).                         *)
(*                                                                         *)
(* A JavaScript string is a sequence of one-character strings; a JavaScript*)
(* index i (0-based) is position i + 1 of the sequence.                    *)
(***************************************************************************)
EXTENDS Integers, Sequences, FiniteSets, TLC

VARIABLES
    text,               \* the argument of the running parseTransactions call
    pc,                 \* position of the call
    patIdx,             \* index of the pattern forEach is at (1..3)
    lastIndex,          \* lastIndex of the running pattern (0-based)
    transactions,       \* the local array `transactions`
    origins,            \* per transaction: which strategy found it, and where
    lines,              \* text.split('\n')
    i,                  \* loop index of parseTransactionsLineByLine (0-based)
    inOperationsSection,
    lineTx,             \* the array parseTransactionsLineByLine builds
    lineOrigins,        \* per lineTx entry: where it was found
    result,             \* what parseTransactions returned
    resultOrigins,      \* origins of the returned records
    records,            \* what processTransactions returned
    costCategories,     \* this.costCategories
    returned,           \* the finished calls: pairs of text and result
    fnIn,               \* argument of the last direct call of a pure method
    fnOut,              \* its return value
    aiCall,             \* the running method of AITransactionExtractor
    aiPc,               \* position of that method
    aiReply,            \* how its fetch settled
    aiOutcome,          \* what the method returned or threw
    apiKey,             \* process.env.OPENAI_API_KEY of the server
    request,            \* req.body of the request the handler is serving
    handlerPc,          \* position of the handler
    upstreamCalls,      \* fetch calls the handler made for this request
    upstreamReply,      \* how the handler's fetch settled
    sent                \* the responses sent for this request

\* the state of a BankStatementExtractor and its callers
extractorVars == << text, pc, patIdx, lastIndex, transactions, origins, lines,
                    i, inOperationsSection, lineTx, lineOrigins, result,
                    resultOrigins, records, costCategories, returned,
                    fnIn, fnOut >>

\* the state of a call of AITransactionExtractor
aiVars == << aiCall, aiPc, aiReply, aiOutcome >>

\* the state of the server and its handler
serverVars == << apiKey, request, handlerPc, upstreamCalls, upstreamReply,
                 sent >>

vars == << extractorVars, aiVars, serverVars >>

-----------------------------------------------------------------------------
(* Characters and strings *)

NL == "\n"

Digits == {"0","1","2","3","4","5","6","7","8","9"}

LowerCase == <<"a","b","c","d","e","f","g","h","i","j","k","l","m","n","o","p","q","r","s","t","u","v","w","x","y","z">>

UpperCase == <<"A","B","C","D","E","F","G","H","I","J","K","L","M","N","O","P","Q","R","S","T","U","V","W","X","Y","Z">>

\* null, as opposed to every string
Null == << "null" >>

\* const x = v; ... x ...: Op applied to the value of v, computed once
Let(v, Op(_)) == CHOOSE r \in {Op(x) : x \in {v}} : TRUE

\* the same for two values
Let2(v, w, Op(_, _)) == CHOOSE r \in {Op(x, y) : x \in {v}, y \in {w}} : TRUE

Min(a, b) == IF a < b THEN a ELSE b

\* the character at position p, "" outside the string
At(s, p) == IF p >= 1 /\ p <= Len(s) THEN s[p] ELSE ""

IsDigit(c) == c \in Digits

\* \s restricted to the whitespace of the modelled texts
IsSpace(c) == c = " " \/ c = NL

\* what `.` does not match
IsLineTerminator(c) == c = NL

LowerCaseSet == {LowerCase[k] : k \in 1..Len(LowerCase)}

UpperCaseOf ==
    [c \in LowerCaseSet |->
        UpperCase[CHOOSE k \in 1..Len(LowerCase) : LowerCase[k] = c]]

\* String.prototype.toUpperCase, one character
UpperChar(c) == IF c \in LowerCaseSet THEN UpperCaseOf[c] ELSE c

\* String.prototype.toUpperCase
ToUpperCase(s0) ==
    Let(s0, LAMBDA s :
        SubSeq([k \in 1..Len(s) |-> UpperChar(s[k])], 1, Len(s)))

\* s.substring(0, n)
Substring0(s0, n) == Let(s0, LAMBDA s : SubSeq(s, 1, Min(n, Len(s))))

StartsWithAt(s, p, w) ==
    /\ p >= 1
    /\ p + Len(w) - 1 <= Len(s)
    /\ \A k \in 1..Len(w) : s[p + k - 1] = w[k]

\* s.includes(w)
Includes(s0, w0) ==
    Let2(s0, w0, LAMBDA s, w :
        \E p \in 1..(Len(s) - Len(w) + 1) : StartsWithAt(s, p, w))

\* the least element of a non-empty set of numbers
Least(S0) == Let(S0, LAMBDA S : CHOOSE x \in S : \A y \in S : x <= y)

\* the greatest element of a non-empty set of numbers
Greatest(S0) == Let(S0, LAMBDA S : CHOOSE x \in S : \A y \in S : x >= y)

\* s.indexOf(w) + 1, 0 when absent
IndexOf(s0, w0) ==
    Let2(s0, w0, LAMBDA s, w :
        Let({p \in 1..(Len(s) - Len(w) + 1) : StartsWithAt(s, p, w)},
            LAMBDA ps : IF ps = {} THEN 0 ELSE Least(ps)))

\* s.replace(w, ''): the first occurrence only
ReplaceFirst(s0, w0) ==
    Let2(s0, w0, LAMBDA s, w :
        Let(IndexOf(s, w), LAMBDA p :
            IF p = 0 THEN s
            ELSE SubSeq(s, 1, p - 1) \o SubSeq(s, p + Len(w), Len(s))))

\* s.trim()
Trim(s0) ==
    Let(s0, LAMBDA s :
        Let({p \in 1..Len(s) : ~IsSpace(s[p])}, LAMBDA ps :
            IF ps = {} THEN << >>
            ELSE SubSeq(s, Least(ps), Greatest(ps))))

\* s.replace(/\s+/g, ' '): of every run of whitespace the first character
\* stays, as a space
CollapseSpaces(s0) ==
    Let(s0, LAMBDA s :
        Let(SelectSeq([p \in 1..Len(s) |-> p],
                      LAMBDA p : ~(IsSpace(s[p]) /\ IsSpace(At(s, p - 1)))),
            LAMBDA kept :
                SubSeq([k \in 1..Len(kept) |->
                           IF IsSpace(s[kept[k]]) THEN " " ELSE s[kept[k]]],
                       1, Len(kept))))

\* s.split('\n')
Split(s0) ==
    Let(s0, LAMBDA s :
        Let(SelectSeq([p \in 1..Len(s) |-> p], LAMBDA p : s[p] = NL),
            LAMBDA nl :
                SubSeq([k \in 1..(Len(nl) + 1) |->
                           SubSeq(s,
                                  IF k = 1 THEN 1 ELSE nl[k - 1] + 1,
                                  IF k > Len(nl) THEN Len(s) ELSE nl[k] - 1)],
                       1, Len(nl) + 1)))

-----------------------------------------------------------------------------
(* The lexer: dates and French amounts.  A matcher takes a position and    *)
(* returns the position after the match, 0 when the pattern does not match *)
(* there.                                                                  *)

\* \d{2}\/\d{2}\/\d{4} at p
IsDateAt(s, p) ==
    /\ p >= 1
    /\ p + 9 <= Len(s)
    /\ IsDigit(s[p]) /\ IsDigit(s[p + 1]) /\ s[p + 2] = "/"
    /\ IsDigit(s[p + 3]) /\ IsDigit(s[p + 4]) /\ s[p + 5] = "/"
    /\ \A k \in 6..9 : IsDigit(s[p + k])

DateLen == 10

\* \s* from p: the first position that holds no whitespace
SkipSpace(s, p) ==
    CHOOSE q \in p..(Len(s) + 1) :
        ~IsSpace(At(s, q)) /\ \A r \in p..(q - 1) : IsSpace(At(s, r))

\* \d* from p
SkipDigits(s, p) ==
    CHOOSE q \in p..(Len(s) + 1) :
        ~IsDigit(At(s, q)) /\ \A r \in p..(q - 1) : IsDigit(At(s, r))

\* [\d\s]* from p
SkipDigitsAndSpace(s, p) ==
    CHOOSE q \in p..(Len(s) + 1) :
        /\ ~(IsDigit(At(s, q)) \/ IsSpace(At(s, q)))
        /\ \A r \in p..(q - 1) : IsDigit(At(s, r)) \/ IsSpace(At(s, r))

Digits3At(s, q) ==
    IsDigit(At(s, q)) /\ IsDigit(At(s, q + 1)) /\ IsDigit(At(s, q + 2))

\* ,\d{2} at q
DecimalsEnd(s, q) ==
    IF At(s, q) = "," /\ IsDigit(At(s, q + 1)) /\ IsDigit(At(s, q + 2))
    THEN q + 3
    ELSE 0

\* (?:\s?\d{3})*,\d{2} at q (optionalSpace) or (?:\s\d{3})*,\d{2} at q:
\* greedy, the iteration with the space first, backtracking to fewer groups
RECURSIVE GroupsEnd(_, _, _)
GroupsEnd(s, q0, optionalSpace) ==
    Let(q0, LAMBDA q :
        Let(IF IsSpace(At(s, q)) /\ Digits3At(s, q + 1)
            THEN GroupsEnd(s, q + 4, optionalSpace)
            ELSE 0,
            LAMBDA withSpace :
                IF withSpace # 0 THEN withSpace
                ELSE Let(IF optionalSpace /\ Digits3At(s, q)
                         THEN GroupsEnd(s, q + 3, optionalSpace)
                         ELSE 0,
                         LAMBDA noSpace :
                             IF noSpace # 0 THEN noSpace
                             ELSE DecimalsEnd(s, q))))

\* \d{1,3} at p, exactly k digits of it, and the groups and decimals after
LeadingDigitsEnd(s, p, k, optionalSpace) ==
    IF \A d \in 0..(k - 1) : IsDigit(At(s, p + d))
    THEN GroupsEnd(s, p + k, optionalSpace)
    ELSE 0

\* \d{1,3}(?:\s?\d{3})*,\d{2} at p: three leading digits first, then two, one
GroupedAmountEnd(s, p, optionalSpace) ==
    Let(LeadingDigitsEnd(s, p, 3, optionalSpace), LAMBDA three :
        IF three # 0 THEN three
        ELSE Let(LeadingDigitsEnd(s, p, 2, optionalSpace), LAMBDA two :
                 IF two # 0 THEN two
                 ELSE LeadingDigitsEnd(s, p, 1, optionalSpace)))

\* \d+,\d{2} at p
PlainAmountEnd(s, p) ==
    IF IsDigit(At(s, p)) THEN DecimalsEnd(s, SkipDigits(s, p)) ELSE 0

\* (\d{1,3}(?:\s?\d{3})*,\d{2}|\d+,\d{2}) at p: patterns 1 and 3
StrictAmountEnd(s, p) ==
    Let(GroupedAmountEnd(s, p, TRUE), LAMBDA grouped :
        IF grouped # 0 THEN grouped ELSE PlainAmountEnd(s, p))

\* (\d[\d\s]*,\d{2}) at p: pattern 2
LooseAmountEnd(s, p) ==
    IF IsDigit(At(s, p))
    THEN DecimalsEnd(s, SkipDigitsAndSpace(s, p + 1))
    ELSE 0

\* (\d{1,3}(?:\s\d{3})*,\d{2}|\d+,\d{2}) at p: the line scan
LineAmountEnd(s, p) ==
    Let(GroupedAmountEnd(s, p, FALSE), LAMBDA grouped :
        IF grouped # 0 THEN grouped ELSE PlainAmountEnd(s, p))

\* (\d{1,3}(?:\s\d{3})*,\d{2}|\d+,\d{2}|\d+) at p: parseTransactionLine
AmountOrIntegerEnd(s, p) ==
    Let(LineAmountEnd(s, p), LAMBDA amount :
        IF amount # 0 THEN amount
        ELSE IF IsDigit(At(s, p)) THEN SkipDigits(s, p)
        ELSE 0)

\* the amount alternative of pattern k
PatternAmountEnd(k, s, p) ==
    IF k = 2 THEN LooseAmountEnd(s, p) ELSE StrictAmountEnd(s, p)

-----------------------------------------------------------------------------
(* The three patterns of parseTransactions *)

NoMatch == [ok |-> FALSE]

\* where whitespace and an amount of pattern k follow position e: the
\* position after the amount, 0 when they do not follow
AmountAfter(k, s, e) ==
    IF IsSpace(At(s, e + 1))
    THEN Let(SkipSpace(s, e + 1), LAMBDA b : PatternAmountEnd(k, s, b))
    ELSE 0

\* (.+?)\s+(amount) with the description starting at ns: the shortest
\* description, on one line, that whitespace and an amount follow
LazyNature(k, s, ns) ==
    Let(Least({q \in ns..(Len(s) + 1) : IsLineTerminator(At(s, q)) \/ q > Len(s)}),
        LAMBDA lineEnd :
        Let({e \in ns..(lineEnd - 1) : AmountAfter(k, s, e) # 0}, LAMBDA es :
            IF es = {} THEN NoMatch
            ELSE Let(Least(es), LAMBDA e :
                     [ok |-> TRUE, nature |-> SubSeq(s, ns, e),
                      amount |-> SubSeq(s, SkipSpace(s, e + 1),
                                        AmountAfter(k, s, e) - 1),
                      end |-> AmountAfter(k, s, e)])))

\* \s+(.+?)\s+(amount) with the whitespace at w..a-1: \s+ is greedy, so the
\* description starts at a, and only then inside the whitespace
RECURSIVE AfterDates(_, _, _, _)
AfterDates(k, s, w, ns0) ==
    Let(ns0, LAMBDA ns :
        IF ns <= w THEN NoMatch
        ELSE Let(LazyNature(k, s, ns), LAMBDA m :
                 IF m.ok THEN m ELSE AfterDates(k, s, w, ns - 1)))

\* the match of pattern k with its first character at p, after the dates
\* that end before position w
MatchFrom(k, s, p, valeurAt, groups, w) ==
    Let(AfterDates(k, s, w, SkipSpace(s, w)), LAMBDA m :
        IF m.ok
        THEN [ok |-> TRUE, groups |-> groups, start |-> p, end |-> m.end,
              date |-> SubSeq(s, p, p + DateLen - 1),
              valeur |-> SubSeq(s, valeurAt, valeurAt + DateLen - 1),
              nature |-> m.nature, amount |-> m.amount]
        ELSE NoMatch)

\* pattern k matched with its first character at p
MatchAt(k, s, p) ==
    IF ~(IsDateAt(s, p) /\ IsSpace(At(s, p + DateLen))) THEN NoMatch
    ELSE IF k = 3 THEN MatchFrom(k, s, p, p, 3, p + DateLen)
    ELSE Let(SkipSpace(s, p + DateLen), LAMBDA q :
             IF ~(IsDateAt(s, q) /\ IsSpace(At(s, q + DateLen))) THEN NoMatch
             ELSE MatchFrom(k, s, p, q, 4, q + DateLen))

\* pattern.exec(text) with pattern.lastIndex = from: the leftmost match.
\* Every pattern starts with a date, so only the positions that start one
\* can start a match.
RECURSIVE ExecFrom(_, _, _)
ExecFrom(k, s, starts0) ==
    Let(starts0, LAMBDA starts :
        IF starts = {} THEN NoMatch
        ELSE Let(MatchAt(k, s, Least(starts)), LAMBDA m :
                 IF m.ok THEN m
                 ELSE ExecFrom(k, s, starts \ {Least(starts)})))

Exec(k, s0, from) ==
    Let(s0, LAMBDA s :
        ExecFrom(k, s, {p \in (from + 1)..Len(s) : IsDateAt(s, p)}))

-----------------------------------------------------------------------------
(* isDebitTransaction *)

debitKeywords == <<
    <<"P","R","E","L","E","V","E","M","E","N","T">>, <<"V","I","R","E","M","E","N","T"," ","E","M","I","S">>, <<"V","I","R"," ","E","M","I","S">>, <<"V","I","R"," ","I","N","S","T","A","N","T","A","N","E"," ","E","M","I","S">>,
    <<"F","R","A","I","S">>, <<"C","O","M","M","I","S","S","I","O","N">>, <<"C","O","T","I","S","A","T","I","O","N">>, <<"A","B","O","N","N","E","M","E","N","T">>, <<"F","A","C","T","U","R","E">>,
    <<"P","A","I","E","M","E","N","T">>, <<"R","E","T","R","A","I","T">>, <<"C","A","R","T","E">>, <<"C","B"," ">>, <<"C","H","E","Q","U","E">>, <<"A","C","H","A","T">>,
    <<"L","O","C","A","T","I","O","N">>, <<"L","O","Y","E","R">>, <<"A","S","S","U","R","A","N","C","E">>, <<"M","U","T","U","E","L","L","E">>, <<"I","N","T","E","R","N","E","T">>,
    <<"T","E","L","E","P","H","O","N","E">>, <<"E","L","E","C","T","R","I","C","I","T","E">>, <<"G","A","Z">>, <<"E","A","U">>, <<"S","A","L","A","I","R","E">>, <<"P","A","I","E">>,
    <<"R","E","M","U","N","E","R","A","T","I","O","N">>, <<"V","I","R","E","M","E","N","T"," ","S","A","L","A","I","R","E">>, <<"V","I","R","E","M","E","N","T"," ","P","A","I","E">>,
    <<"M","A","S","S","E"," ","S","A","L","A","R","I","A","L","E">> >>

creditKeywords == <<
    <<"V","I","R","E","M","E","N","T"," ","R","E","C","U">>, <<"V","I","R"," ","R","E","C","U">>, <<"V","I","R"," ","I","N","S","T","A","N","T","A","N","E"," ","R","E","C","U">>, <<"R","E","M","I","S","E"," ","C","B">>,
    <<"V","E","R","S","E","M","E","N","T"," ","R","E","C","U">>, <<"D","E","P","O","T"," ","E","S","P","E","C","E">>, <<"E","N","C","A","I","S","S","E","M","E","N","T">> >>

\* keywords.some(keyword => upperLine.includes(keyword))
SomeIncluded(keywords, upperLine) ==
    \E k \in 1..Len(keywords) : Includes(upperLine, keywords[k])

\* (line + ' ' + nature).toUpperCase()
UpperLine(line, nature) == ToUpperCase(line \o << " " >> \o nature)

\* the opposite default: an unrecognized transaction taken for a credit
DefaultIsCredit == FALSE

\* the final `return true`
DefaultIsDebit == TRUE

\* a classifier that would look for the debit keywords first
DebitKeywordsFirst(line, nature) ==
    Let(UpperLine(line, nature), LAMBDA upperLine :
        IF SomeIncluded(debitKeywords, upperLine) THEN TRUE
        ELSE IF SomeIncluded(creditKeywords, upperLine) THEN FALSE
        ELSE DefaultIsDebit)

\* creditKeywords.some(...) -> false, debitKeywords.some(...) -> true,
\* otherwise the default
IsDebitTransaction(line, nature) ==
    Let(UpperLine(line, nature), LAMBDA upperLine :
        IF SomeIncluded(creditKeywords, upperLine) THEN FALSE
        ELSE IF SomeIncluded(debitKeywords, upperLine) THEN TRUE
        ELSE DefaultIsDebit)

-----------------------------------------------------------------------------
(* parseTransactionLine *)

\* the matches of a pattern with the g flag, one after the other: ends maps
\* each position the pattern matches at to the position after that match
RECURSIVE MatchesFrom(_, _, _)
MatchesFrom(s, ends0, from0) ==
    Let2(ends0, from0, LAMBDA ends, from :
        Let({p \in DOMAIN ends : p >= from}, LAMBDA rest :
            IF rest = {} THEN << >>
            ELSE Let(Least(rest), LAMBDA p :
                     << SubSeq(s, p, ends[p] - 1) >>
                         \o MatchesFrom(s, ends, ends[p]))))

\* line.match(/(\d{2}\/\d{2}\/\d{4})/g), [] for null
Dates(line0) ==
    Let(line0, LAMBDA line :
        MatchesFrom(line,
                    [p \in {q \in 1..Len(line) : IsDateAt(line, q)}
                        |-> p + DateLen],
                    1))

\* line.match(amountPattern), [] for null
Amounts(line0) ==
    Let(line0, LAMBDA line :
        MatchesFrom(line,
                    [p \in {q \in 1..Len(line) : AmountOrIntegerEnd(line, q) # 0}
                        |-> AmountOrIntegerEnd(line, p)],
                    1))

\* ws.forEach(w => nature = nature.replace(w, ''))
RECURSIVE RemoveEach(_, _)
RemoveEach(nature0, ws0) ==
    Let2(nature0, ws0, LAMBDA nature, ws :
        IF ws = << >> THEN nature
        ELSE RemoveEach(ReplaceFirst(nature, Head(ws)), Tail(ws)))

\* the amount parseTransactionLine reports: amounts[amounts.length - 1]
LastAmount(amounts) == amounts[Len(amounts)]

\* JavaScript truthiness of a string-or-null
Truthy(v) == v # Null /\ v # << >>

\* parseTransactionLine returns an object, not null: the line holds a date
\* and something the amount pattern matches
ParsesAsTransaction(line0) ==
    Let(line0, LAMBDA line :
        /\ \E p \in 1..Len(line) : IsDateAt(line, p)
        /\ \E p \in 1..Len(line) : AmountOrIntegerEnd(line, p) # 0)

\* the object with a line's dates, amounts and description
TransactionOf(line, dates, amounts, nature) ==
    Let(IsDebitTransaction(line, nature), LAMBDA isDebit :
        [date |-> dates[1],
         valeur |-> IF Len(dates) >= 2 THEN dates[2] ELSE dates[1],
         nature |-> nature,
         debit |-> IF isDebit THEN LastAmount(amounts) ELSE Null,
         credit |-> IF ~isDebit THEN LastAmount(amounts) ELSE Null])

\* the object parseTransactionLine returns when it does not return null
ParseTransactionLine(line0) ==
    Let(line0, LAMBDA line :
        Let2(Dates(line), Amounts(line), LAMBDA dates, amounts :
            Let(CollapseSpaces(Trim(
                    RemoveEach(RemoveEach(line, dates), amounts))),
                LAMBDA nature : TransactionOf(line, dates, amounts, nature))))

\* what `if (transaction && transaction.debit) transactions.push(transaction)`
\* pushes for a line
PushedFor(line0) ==
    Let(line0, LAMBDA line :
        IF ~ParsesAsTransaction(line) THEN << >>
        ELSE Let(ParseTransactionLine(line), LAMBDA transaction :
                 IF Truthy(transaction.debit) THEN << transaction >>
                 ELSE << >>))

-----------------------------------------------------------------------------
(* parseTransactionsLineByLine, one iteration of its for loop *)

HeaderDate == <<"D","a","t","e">>

HeaderValeur == <<"V","a","l","e","u","r">>

HeaderPlain == <<"R","E","L","E","V","E"," ","D","E","S"," ","O","P","E","R","A","T","I","O","N","S">>

HeaderAccented == << "R","E","L","E","V","É"," ","D","E","S"," ",
                     "O","P","É","R","A","T","I","O","N","S" >>

IsSectionHeader(line) ==
    \/ Includes(line, HeaderAccented)
    \/ Includes(line, HeaderPlain)
    \/ (Includes(line, HeaderDate) /\ Includes(line, HeaderValeur))

\* /(\d{1,3}(?:\s\d{3})*,\d{2}|\d+,\d{2})/ matches somewhere in the line
HasLineAmount(line) == \E p \in 1..Len(line) : LineAmountEnd(line, p) # 0

\* /\d{2}\/\d{2}\/\d{4}/.test(line)
HasDate(line) == \E p \in 1..Len(line) : IsDateAt(line, p)

\* /^\d{2}\/\d{2}\/\d{4}/.test(line)
StartsWithDate(line) == IsDateAt(line, 1)

\* how many lines after the dated line the while loop may look at
MaxContinuation == 2

\* the while loop: j (0-based) and fullTransaction when it stops
RECURSIVE Combine(_, _, _, _)
Combine(ls, i0, j0, full0) ==
    Let2(j0, full0, LAMBDA j, full :
        IF j < Len(ls) /\ j < i0 + 1 + MaxContinuation
        THEN Let(Trim(ls[j + 1]), LAMBDA nextLine :
                 IF nextLine # << >> /\ ~StartsWithDate(nextLine)
                 THEN Combine(ls, i0, j + 1, full \o << " " >> \o nextLine)
                 ELSE [j |-> j, full |-> full])
        ELSE [j |-> j, full |-> full])

\* i = j - 1 without the i++ of the for statement
IndexBeforeCombine(j) == j - 1

\* i = j - 1, then the i++ of the for statement
IndexAfterCombine(j) == (j - 1) + 1

\* an iteration that parses the combined lines whether or not the dated line
\* holds an amount
CombinedAlways(ls, i0, line) ==
    Let(IF HasLineAmount(line) /\ HasDate(line) THEN PushedFor(line) ELSE << >>,
        LAMBDA direct :
        IF StartsWithDate(line)
        THEN Let(Combine(ls, i0, i0 + 1, line), LAMBDA c :
                 [found |-> direct \o PushedFor(c.full),
                  next |-> IndexAfterCombine(c.j)])
        ELSE [found |-> direct, next |-> i0 + 1])

\* what the iteration pushes for a line of the section that is not empty
ScanSectionLine(ls, i0, line) ==
    Let(IF HasLineAmount(line) /\ HasDate(line) THEN PushedFor(line) ELSE << >>,
        LAMBDA direct :
        IF StartsWithDate(line)
        THEN Let(Combine(ls, i0, i0 + 1, line), LAMBDA c :
                 [found |-> direct \o (IF ~HasLineAmount(line)
                                       THEN PushedFor(c.full)
                                       ELSE << >>),
                  next |-> IndexAfterCombine(c.j)])
        ELSE [found |-> direct, next |-> i0 + 1])

\* an iteration that does not wait for the section header
ScanAnywhere(ls, i0, inSection) ==
    Let(Trim(ls[i0 + 1]), LAMBDA line :
        IF IsSectionHeader(line)
        THEN [found |-> << >>, inSection |-> TRUE, next |-> i0 + 1]
        ELSE IF Len(line) = 0
        THEN [found |-> << >>, inSection |-> inSection, next |-> i0 + 1]
        ELSE Let(ScanSectionLine(ls, i0, line), LAMBDA r :
                 [found |-> r.found, inSection |-> inSection, next |-> r.next]))

\* the transactions one iteration pushes, and the next value of i
ScanIteration(ls, i0, inSection) ==
    Let(Trim(ls[i0 + 1]), LAMBDA line :
        IF IsSectionHeader(line)
        THEN [found |-> << >>, inSection |-> TRUE, next |-> i0 + 1]
        ELSE IF ~inSection \/ Len(line) = 0
        THEN [found |-> << >>, inSection |-> inSection, next |-> i0 + 1]
        ELSE Let(ScanSectionLine(ls, i0, line), LAMBDA r :
                 [found |-> r.found, inSection |-> inSection, next |-> r.next]))

-----------------------------------------------------------------------------
(* The duplicate tests of parseTransactions *)

\* the substring length of the regex strategies' test
RegexPrefixLen == 30

\* the substring length of the merge's test
MergePrefixLen == 20

\* the predicate of transactions.some(...) in the regex strategies
RegexDuplicateOf(t, date, nature, amount) ==
    /\ t.date = date
    /\ t.debit = amount
    /\ \/ Substring0(t.nature, RegexPrefixLen) = Substring0(nature, RegexPrefixLen)
       \/ Includes(Substring0(nature, RegexPrefixLen),
                   Substring0(t.nature, RegexPrefixLen))

IsRegexDuplicate(txs, date, nature, amount) ==
    \E k \in 1..Len(txs) : RegexDuplicateOf(txs[k], date, nature, amount)

\* the predicate of transactions.some(...) in the merge
MergeDuplicateOf(existingTx, newTx) ==
    /\ existingTx.date = newTx.date
    /\ existingTx.debit = newTx.debit
    /\ Substring0(existingTx.nature, MergePrefixLen)
         = Substring0(newTx.nature, MergePrefixLen)

IsMergeDuplicate(txs, newTx) ==
    \E k \in 1..Len(txs) : MergeDuplicateOf(txs[k], newTx)

\* an object with the amount in both columns
BothColumns(s, m) ==
    [date |-> m.date, valeur |-> m.valeur, nature |-> Trim(m.nature),
     debit |-> m.amount, credit |-> m.amount]

\* the object a regex strategy pushes for a match
MatchTransaction(s, m) ==
    Let(IsDebitTransaction(SubSeq(s, m.start, m.end - 1), m.nature),
        LAMBDA isDebit :
            [date |-> m.date, valeur |-> m.valeur, nature |-> Trim(m.nature),
             debit |-> IF isDebit THEN m.amount ELSE Null,
             credit |-> IF isDebit THEN Null ELSE m.amount])

\* transactions.filter(t => t.debit), and the same selection of any
\* sequence that runs parallel to it
RECURSIVE FilterDebit(_, _)
FilterDebit(txs0, par0) ==
    Let2(txs0, par0, LAMBDA txs, par :
        IF txs = << >> THEN << >>
        ELSE IF Truthy(Head(txs).debit)
             THEN << Head(par) >> \o FilterDebit(Tail(txs), Tail(par))
             ELSE FilterDebit(Tail(txs), Tail(par)))

\* the line (1-based) of s that holds position p
LineOf(s, p) == 1 + Cardinality({q \in 1..(p - 1) : s[q] = NL})

-----------------------------------------------------------------------------
(* categorizeTransaction *)

\* the array the constructor assigns to this.costCategories
ConstructorCategories == <<
    <<"A","S","S","U","R","A","N","C","E">>, <<"C","H","A","R","G","E","S"," ","S","O","C","I","A","L","E","S">>, <<"C","R","E","D","I","T"," ","C","A","B","I","N","E","T">>, <<"F","R","A","I","S"," ","B","A","N","Q","U","E">>,
    <<"G","Y","M">>, <<"I","N","T","E","R","N","E","T">>, <<"L","E","A","S","I","N","G"," ","M","O","T","O">>, <<"L","E","A","S","I","N","G"," ","V","O","I","T","U","R","E">>,
    <<"L","O","G","I","C","I","E","L"," ","C","A","B","I","N","E","T">>, <<"L","O","Y","E","R"," ","C","A","B","I","N","E","T">>, <<"M","A","S","S","E"," ","S","A","L","A","R","I","A","L","E">>,
    <<"M","A","T","E","R","I","E","L"," ","C","A","B","I","N","E","T">>, <<"M","U","T","U","E","L","L","E">>,
    << "M","U","T","U","E","L","L","E"," ","S","A","L","A","R","I","É" >>,
    <<"P","R","E","V","O","Y","A","N","C","E">>, <<"T","P","E"," ","B","A","N","Q","U","E">>, <<"U","R","S","S","A","F","/","C","H","A","R","G","E","S"," ","S","O","C","I","A","L","E","S">> >>

\* a keyword of fuzzyRules is a sequence of literals: one literal, or two
\* with .* between them
fuzzyRules == <<
    [category |-> <<"M","A","S","S","E"," ","S","A","L","A","R","I","A","L","E">>, keywords |-> <<
        <<<<"V","I","R"," ","I","N","S","T","A","N","T","A","N","E"," ","E","M","I","S"," ","N","E","T">>>>, <<<<"V","I","R","E","M","E","N","T"," ","S","A","L","A","I","R","E">>>>, <<<<"P","A","I","E">>>>,
        <<<<"R","E","M","U","N","E","R","A","T","I","O","N">>>>, <<<<"S","A","L","A","I","R","E">>>> >>],
    [category |-> <<"F","R","A","I","S"," ","B","A","N","Q","U","E">>, keywords |-> <<
        <<<<"F","R","A","I","S">>>>, <<<<"B","A","N","C","A","I","R","E">>>>, <<<<"C","O","M","M","I","S","S","I","O","N">>>>, <<<<"A","G","I","O","S">>>>,
        <<<<"C","O","T","I","S","A","T","I","O","N"," ","C","A","R","T","E">>>>, <<<<"T","E","N","U","E"," ","C","O","M","P","T","E">>>> >>],
    [category |-> <<"I","N","T","E","R","N","E","T">>, keywords |-> <<
        <<<<"O","R","A","N","G","E">>>>, <<<<"S","F","R">>>>, <<<<"B","O","U","Y","G","U","E","S">>>>, <<<<"F","R","E","E">>>>,
        <<<<"T","E","L","E","C","O","M">>>>, <<<<"I","N","T","E","R","N","E","T">>>>, <<<<"M","O","B","I","L","E">>>>, <<<<"F","I","B","R","E">>>> >>],
    [category |-> <<"A","S","S","U","R","A","N","C","E">>, keywords |-> <<
        <<<<"A","S","S","U","R","A","N","C","E">>>>, <<<<"A","S","S","U","R">>>>, <<<<"M","A","I","F">>>>, <<<<"M","A","C","I","F">>>>,
        <<<<"A","X","A">>>>, <<<<"A","L","L","I","A","N","Z">>>>, <<<<"G","E","N","E","R","A","L","I">>>> >>],
    [category |-> <<"L","O","Y","E","R"," ","C","A","B","I","N","E","T">>, keywords |-> <<
        <<<<"L","O","Y","E","R">>>>, <<<<"L","O","C","A","T","I","O","N">>>>, <<<<"B","A","I","L">>>>, <<<<"I","M","M","O","B","I","L","I","E","R">>>>,
        <<<<"C","A","B","I","N","E","T">>>>, <<<<"L","O","C","A","L">>>> >>],
    [category |-> <<"G","Y","M">>, keywords |-> <<
        <<<<"G","Y","M">>>>, <<<<"F","I","T","N","E","S","S">>>>, <<<<"S","P","O","R","T">>>>, <<<<"C","L","U","B">>>>,
        <<<<"S","A","L","L","E"," ","D","E"," ","S","P","O","R","T">>>>, <<<<"M","U","S","C","U","L","A","T","I","O","N">>>> >>],
    [category |-> <<"C","H","A","R","G","E","S"," ","S","O","C","I","A","L","E","S">>, keywords |-> <<
        <<<<"U","R","S","S","A","F">>>>, <<<<"S","O","C","I","A","L">>>>, <<<<"C","O","T","I","S","A","T","I","O","N">>>>, <<<<"S","E","C","U">>>>,
        <<<<"R","E","T","R","A","I","T","E">>>>, <<<<"P","O","L","E"," ","E","M","P","L","O","I">>>> >>],
    [category |-> <<"L","E","A","S","I","N","G"," ","M","O","T","O">>, keywords |-> <<
        <<<<"L","E","A","S","I","N","G">>, <<"M","O","T","O">>>>, <<<<"L","O","C","A","T","I","O","N">>, <<"M","O","T","O">>>>,
        <<<<"S","C","O","O","T","E","R">>>>, <<<<"D","E","U","X"," ","R","O","U","E","S">>>> >>],
    [category |-> <<"L","E","A","S","I","N","G"," ","V","O","I","T","U","R","E">>, keywords |-> <<
        <<<<"L","E","A","S","I","N","G">>, <<"V","O","I","T","U","R","E">>>>, <<<<"L","O","C","A","T","I","O","N">>, <<"V","E","H","I","C","U","L","E">>>>,
        <<<<"A","U","T","O">>>>, <<<<"V","O","I","T","U","R","E">>>> >>],
    [category |-> <<"M","U","T","U","E","L","L","E">>, keywords |-> <<
        <<<<"M","U","T","U","E","L","L","E">>>>, <<<<"C","O","M","P","L","E","M","E","N","T","A","I","R","E">>>>, <<<<"S","A","N","T","E">>>>,
        <<<<"M","E","D","I","C","A","L">>>> >>],
    [category |-> <<"M","A","T","E","R","I","E","L"," ","C","A","B","I","N","E","T">>, keywords |-> <<
        <<<<"M","A","T","E","R","I","E","L">>>>, <<<<"E","Q","U","I","P","E","M","E","N","T">>>>, <<<<"F","O","U","R","N","I","T","U","R","E">>>>,
        <<<<"M","O","B","I","L","I","E","R">>>> >>],
    [category |-> <<"L","O","G","I","C","I","E","L"," ","C","A","B","I","N","E","T">>, keywords |-> <<
        <<<<"L","O","G","I","C","I","E","L">>>>, <<<<"S","O","F","T","W","A","R","E">>>>, <<<<"L","I","C","E","N","C","E">>>>,
        <<<<"A","B","O","N","N","E","M","E","N","T">>, <<"I","N","F","O","R","M","A","T","I","Q","U","E">>>> >>],
    [category |-> <<"P","R","E","V","O","Y","A","N","C","E">>, keywords |-> <<
        <<<<"P","R","E","V","O","Y","A","N","C","E">>>>, <<<<"D","E","C","E","S">>>>, <<<<"I","N","V","A","L","I","D","I","T","E">>>>,
        <<<<"I","N","C","A","P","A","C","I","T","E">>>> >>],
    [category |-> <<"T","P","E"," ","B","A","N","Q","U","E">>, keywords |-> <<
        <<<<"T","P","E">>>>, <<<<"T","E","R","M","I","N","A","L">>>>, <<<<"P","A","I","E","M","E","N","T">>>>, <<<<"M","O","N","E","T","I","Q","U","E">>>> >>] >>

Autres == <<"A","U","T","R","E","S">>

\* new RegExp(keyword, 'i').test(upperNature)
KeywordMatches(parts, u) ==
    IF Len(parts) = 1 THEN Includes(u, parts[1])
    ELSE \E p \in 1..Len(u), q \in 1..(Len(u) + 1) :
            /\ StartsWithAt(u, p, parts[1])
            /\ q >= p + Len(parts[1])
            /\ StartsWithAt(u, q, parts[2])
            /\ \A r \in (p + Len(parts[1]))..(q - 1) : ~IsLineTerminator(u[r])

RuleMatches(rule, u) ==
    \E k \in 1..Len(rule.keywords) : KeywordMatches(rule.keywords[k], u)

\* the index of the first category from k on that upperNature includes,
\* 0 when the for loop ends without one
RECURSIVE FirstExact(_, _, _)
FirstExact(categories, u, k) ==
    IF k > Len(categories) THEN 0
    ELSE IF Includes(u, categories[k]) THEN k
    ELSE FirstExact(categories, u, k + 1)

\* the index of the first entry of fuzzyRules from r on with a keyword that
\* matches, 0 when there is none
RECURSIVE FirstFuzzy(_, _)
FirstFuzzy(u, r) ==
    IF r > Len(fuzzyRules) THEN 0
    ELSE IF RuleMatches(fuzzyRules[r], u) THEN r
    ELSE FirstFuzzy(u, r + 1)

\* a classifier without the fuzzy step
ExactOrDefault(categories, nature) ==
    Let(ToUpperCase(nature), LAMBDA upperNature :
        Let(FirstExact(categories, upperNature, 1), LAMBDA exact :
            IF exact # 0
            THEN [category |-> categories[exact], confidence |-> "high"]
            ELSE [category |-> Autres, confidence |-> "low"]))

CategorizeTransaction(categories, nature) ==
    Let(ToUpperCase(nature), LAMBDA upperNature :
        Let(FirstExact(categories, upperNature, 1), LAMBDA exact :
            IF exact # 0
            THEN [category |-> categories[exact], confidence |-> "high"]
            ELSE Let(FirstFuzzy(upperNature, 1), LAMBDA fuzzy :
                     IF fuzzy # 0
                     THEN [category |-> fuzzyRules[fuzzy].category,
                           confidence |-> "medium"]
                     ELSE [category |-> Autres, confidence |-> "low"])))

-----------------------------------------------------------------------------
(* extractClientName *)

\* w at position p of s under the i flag
StartsWithAtIgnoreCase(s, p, w) ==
    /\ p >= 1
    /\ p + Len(w) - 1 <= Len(s)
    /\ \A k \in 1..Len(w) : UpperChar(s[p + k - 1]) = UpperChar(w[k])

\* [^0-9\n]
IsNameChar(c) == c # "" /\ ~IsDigit(c) /\ c # NL

\* [^0-9\n]* from p
SkipNameChars(s, p) ==
    CHOOSE q \in p..(Len(s) + 1) :
        ~IsNameChar(At(s, q)) /\ \A r \in p..(q - 1) : IsNameChar(At(s, r))

\* where the group of /marker\s*([^0-9\n]+)/i starts when the marker is at
\* p: \s* takes all the whitespace and gives it back one character at a time
\* until the group has a first character; 0 when it finds none
MarkerGroupStart(s, p, marker) ==
    IF ~StartsWithAtIgnoreCase(s, p, marker) THEN 0
    ELSE Let(p + Len(marker), LAMBDA a :
             Let({g \in a..SkipSpace(s, a) : IsNameChar(At(s, g))}, LAMBDA gs :
                 IF gs = {} THEN 0 ELSE Greatest(gs)))

\* nature.match(/marker\s*([^0-9\n]+)/i): match[1], Null for no match
MarkerMatch(s0, marker) ==
    Let(s0, LAMBDA s :
        Let({p \in 1..Len(s) : MarkerGroupStart(s, p, marker) # 0}, LAMBDA ps :
            IF ps = {} THEN Null
            ELSE Let(MarkerGroupStart(s, Least(ps), marker), LAMBDA g :
                     SubSeq(s, g, SkipNameChars(s, g) - 1))))

SalaryMarker == <<"V","I","R"," ","I","N","S","T","A","N","T","A","N","E"," ","E","M","I","S"," ","N","E","T">>

DirectDebitMarker == <<"P","R","E","L","E","V","E","M","E","N","T"," ","E","U","R","O","P","E","E","N">>

SalaryPayment == <<"S","a","l","a","r","y"," ","P","a","y","m","e","n","t">>

UnknownClient == <<"U","n","k","n","o","w","n"," ","C","l","i","e","n","t">>

\* the five anchored replace patterns: each is a list of alternatives in the
\* order the regex tries them, an alternative a list of literals with \s*
\* after each
prefixPatterns == <<
    << <<<<"P","R","E","L","E","V","E","M","E","N","T">>>>, <<<<"V","I","R","E","M","E","N","T">>>>, <<<<"P","A","I","E","M","E","N","T">>>> >>,
    << <<<<"E","U","R","O","P","E","E","N">>, <<"S","E","P","A">>>>, <<<<"S","E","P","A">>>> >>,
    << <<<<"I","N","S","T","A","N","T","A","N","E">>, <<"E","M","I","S">>, <<"N","E","T">>>>, <<<<"E","M","I","S">>, <<"N","E","T">>>> >>,
    << <<<<"D","E",":">>>>, <<<<"D","U",":">>>>, <<<<"L","A",":">>>>, <<<<"L","E",":">>>>, <<<<"L","E","S",":">>>> >>,
    << <<<<"P","O","U","R",":">>>>, <<<<"P","A","R",":">>>> >> >>

\* the position after the literals matched from p on, 0 when they do not
\* match
RECURSIVE LiteralsEnd(_, _, _)
LiteralsEnd(s, p0, literals0) ==
    Let2(p0, literals0, LAMBDA p, literals :
        IF literals = << >> THEN p
        ELSE IF StartsWithAtIgnoreCase(s, p, Head(literals))
        THEN LiteralsEnd(s, SkipSpace(s, p + Len(Head(literals))),
                         Tail(literals))
        ELSE 0)

\* s.replace(/^.../i, '') for one of the prefix patterns
RemovePrefix(s0, alternatives) ==
    Let(s0, LAMBDA s :
        Let({k \in 1..Len(alternatives) :
                LiteralsEnd(s, 1, alternatives[k]) # 0}, LAMBDA ks :
            IF ks = {} THEN s
            ELSE SubSeq(s, LiteralsEnd(s, 1, alternatives[Least(ks)]),
                        Len(s))))

\* the chain of replace calls that gives cleanNature
RECURSIVE RemovePrefixes(_, _)
RemovePrefixes(s, k) ==
    IF k > Len(prefixPatterns) THEN s
    ELSE RemovePrefixes(RemovePrefix(s, prefixPatterns[k]), k + 1)

\* the position after the word that starts at p
WordEnd(s, p) ==
    CHOOSE q \in p..(Len(s) + 1) :
        /\ (q = Len(s) + 1 \/ IsSpace(s[q]))
        /\ \A r \in p..(q - 1) : ~IsSpace(s[r])

\* cleanNature.split(/\s+/) without the empty strings it may start and end
\* with, which the filter drops
Words(s0) ==
    Let(s0, LAMBDA s :
        MatchesFrom(s,
                    [p \in {q \in 1..Len(s) :
                               ~IsSpace(s[q]) /\ (q = 1 \/ IsSpace(s[q - 1]))}
                        |-> WordEnd(s, p)],
                    1))

stopWords == {
    <<"D","E">>, <<"D","U">>, <<"L","A">>, <<"L","E">>, <<"L","E","S">>, <<"P","O","U","R">>, <<"P","A","R">>, <<"E","T">>,
    <<"O","U">>, <<"A","V","E","C">>, <<"S","A","N","S">>, <<"R","E","F">>, <<"D","A","T","E">>, <<"M","O","T","I","F">> }

\* word.length > 2
MinWordLength == 2

\* the predicate of words.filter(...)
IsMeaningfulWord(word) ==
    /\ Len(word) > MinWordLength
    /\ ~IsDigit(word[1])
    /\ ToUpperCase(word) \notin stopWords

\* slice(0, 5)
MaxWords == 5

\* ws.join(' ')
RECURSIVE JoinWords(_)
JoinWords(ws) ==
    IF ws = << >> THEN << >>
    ELSE IF Len(ws) = 1 THEN ws[1]
    ELSE ws[1] \o << " " >> \o JoinWords(Tail(ws))

\* À-ÿ
AccentedRange == {
    "À","Á","Â","Ã","Ä","Å","Æ","Ç","È","É","Ê","Ë","Ì","Í","Î","Ï",
    "Ð","Ñ","Ò","Ó","Ô","Õ","Ö","×","Ø","Ù","Ú","Û","Ü","Ý","Þ","ß",
    "à","á","â","ã","ä","å","æ","ç","è","é","ê","ë","ì","í","î","ï",
    "ð","ñ","ò","ó","ô","õ","ö","÷","ø","ù","ú","û","ü","ý","þ","ÿ" }

\* what [^a-zA-ZÀ-ÿ0-9\s\-\.] does not match
IsKeptChar(c) ==
    \/ c \in LowerCaseSet
    \/ c \in {UpperCase[k] : k \in 1..Len(UpperCase)}
    \/ c \in AccentedRange
    \/ IsDigit(c)
    \/ IsSpace(c)
    \/ c \in {"-", "."}

\* s.replace(/[^a-zA-ZÀ-ÿ0-9\s\-\.]/g, ' ')
ReplaceOtherChars(s0) ==
    Let(s0, LAMBDA s :
        SubSeq([k \in 1..Len(s) |-> IF IsKeptChar(s[k]) THEN s[k] ELSE " "],
               1, Len(s)))

\* match[1].trim().replace(/\s+/g, ' ')
MarkerName(group) == CollapseSpaces(Trim(group))

\* the rule for the descriptions no marker rule answers
GenericClientName(nature) ==
    Let(SelectSeq(Words(RemovePrefixes(nature, 1)), IsMeaningfulWord),
        LAMBDA meaningfulWords :
        Let(Trim(JoinWords(SubSeq(meaningfulWords, 1,
                                  Min(MaxWords, Len(meaningfulWords))))),
            LAMBDA clientName :
            Let(Trim(ReplaceOtherChars(CollapseSpaces(clientName))),
                LAMBDA cleaned :
                IF cleaned = << >> THEN UnknownClient ELSE cleaned)))

\* the rules with the direct-debit rule tried first
DirectDebitFirst(nature0) ==
    Let(nature0, LAMBDA nature :
        Let(IF Includes(nature, DirectDebitMarker)
            THEN MarkerMatch(nature, <<"D","E",":">>) ELSE Null,
            LAMBDA debitGroup :
            IF debitGroup # Null THEN MarkerName(debitGroup)
            ELSE IF Includes(nature, SalaryMarker)
            THEN Let(MarkerMatch(nature, <<"P","O","U","R",":">>), LAMBDA group :
                     IF group # Null THEN MarkerName(group) ELSE SalaryPayment)
            ELSE GenericClientName(nature)))

\* extractClientName(nature)
ExtractClientName(nature0) ==
    Let(nature0, LAMBDA nature :
        IF Includes(nature, SalaryMarker)
        THEN Let(MarkerMatch(nature, <<"P","O","U","R",":">>), LAMBDA group :
                 IF group # Null THEN MarkerName(group) ELSE SalaryPayment)
        ELSE Let(IF Includes(nature, DirectDebitMarker)
                 THEN MarkerMatch(nature, <<"D","E",":">>) ELSE Null,
                 LAMBDA group :
                 IF group # Null THEN MarkerName(group)
                 ELSE GenericClientName(nature)))

-----------------------------------------------------------------------------
(* processTransactions *)

\* s.replace(/\s/g, '')
RemoveSpaces(s) == SelectSeq(s, LAMBDA c : ~IsSpace(c))

\* determineMovementType(nature)
DetermineMovementType(nature) ==
    Let(ToUpperCase(nature), LAMBDA upperNature :
        IF Includes(upperNature, <<"P","R","E","L","E","V","E","M","E","N","T">>) THEN "direct_debit"
        ELSE IF Includes(upperNature, <<"V","I","R","E","M","E","N","T">>) THEN "transfer"
        ELSE IF Includes(upperNature, <<"C","A","R","T","E">>) \/ Includes(upperNature, <<"C","B">>)
             THEN "card"
        ELSE IF Includes(upperNature, <<"C","H","E","Q","U","E">>) THEN "check"
        ELSE "other")

monthlyKeywords == <<
    <<"L","O","Y","E","R">>, <<"A","B","O","N","N","E","M","E","N","T">>, <<"A","S","S","U","R","A","N","C","E">>, <<"M","U","T","U","E","L","L","E">>, <<"I","N","T","E","R","N","E","T">>,
    <<"T","E","L","E","P","H","O","N","E">> >>

occasionalKeywords == <<
    <<"A","C","H","A","T">>, <<"F","A","C","T","U","R","E">>, <<"R","E","P","A","R","A","T","I","O","N">>, <<"M","A","I","N","T","E","N","A","N","C","E">> >>

\* determineFrequency(nature)
DetermineFrequency(nature) ==
    Let(ToUpperCase(nature), LAMBDA upperNature :
        IF SomeIncluded(monthlyKeywords, upperNature) THEN "monthly"
        ELSE IF SomeIncluded(occasionalKeywords, upperNature) THEN "occasional"
        ELSE "unknown")

\* the index as the callback receives it
ZeroBasedIndex(index) == index

\* index + 1
RecordIndex(index) == index + 1

\* the object the map callback returns for transactions[index], 0-based;
\* the local `amount` is computed and not returned
ExpenseRecord(categories, transaction, index) ==
    Let2(CategorizeTransaction(categories, transaction.nature),
         RemoveSpaces(transaction.debit),
         LAMBDA categorization, amountStr :
            [index |-> RecordIndex(index),
             date |-> transaction.date,
             center |-> << >>,
             client |-> ExtractClientName(transaction.nature),
             amountWithTaxes |-> amountStr \o << "€" >>,
             amountWithoutTaxes |-> << >>,
             worker |-> << >>,
             taxes |-> << >>,
             typeOfTransaction |-> "cost",
             typeOfMovement |-> DetermineMovementType(transaction.nature),
             frequency |-> DetermineFrequency(transaction.nature),
             typeOfClient |-> "service",
             service |-> categorization.category,
             confidence |-> categorization.confidence,
             rawNature |-> transaction.nature])

\* transactions.map(...)
ProcessTransactions(categories, txs) ==
    SubSeq([k \in 1..Len(txs) |-> ExpenseRecord(categories, txs[k], k - 1)],
           1, Len(txs))

-----------------------------------------------------------------------------
(* The chat completions service, as fetch shows it to its callers *)

\* response.ok
IsOk(status) == status >= 200 /\ status <= 299

\* x || d for a string x, with undefined held as the empty string
OrDefault(x, d) == IF x = "" THEN d ELSE x

\* choices[0].message.content once the code fences are stripped: text that
\* JSON.parse rejects, text cut off after some complete transactions, or an
\* object with one array field (transactions, categorized or clients) or
\* none
Contents ==
    {[parse |-> "error", field |-> "none", items |-> << >>],
     [parse |-> "object", field |-> "none", items |-> << >>]}
    \cup {[parse |-> p, field |-> "transactions", items |-> x] :
             p \in {"object", "truncated"},
             x \in {<< >>,
                    << [date |-> "02/01/2025", valeur |-> "",
                        description |-> "LOYER", amount |-> "11,24",
                        client |-> "SCI", type |-> ""] >>}}
    \cup {[parse |-> "object", field |-> "categorized", items |-> x] :
             x \in {<< >>,
                    << [index |-> 1, category |-> "GYM",
                        confidence |-> "high"] >>,
                    << [index |-> 1, category |-> "", confidence |-> ""],
                       [index |-> 2, category |-> "INTERNET",
                        confidence |-> "medium"] >>}}
    \cup {[parse |-> "object", field |-> "clients", items |-> x] :
             x \in {<< >>, << [index |-> 2, client_name |-> "ORANGE"] >>}}

\* a fetch that has not settled, and the content of a reply without one
NoReply ==
    [settled |-> "pending", status |-> 0, body |-> "none",
     content |-> [parse |-> "error", field |-> "none", items |-> << >>]]

\* how the promise of fetch settles: rejected, or fulfilled with a response
\* whose body cannot be read to its end, is not JSON, is an error object
\* without choices, or is a completion
Replies ==
    {[settled |-> "rejected", status |-> 0, body |-> "none",
      content |-> NoReply.content]}
    \cup {[settled |-> "fulfilled", status |-> s, body |-> b,
           content |-> NoReply.content] :
             s \in {200, 401, 503},
             b \in {"streamError", "notJson", "errorObject"}}
    \cup {[settled |-> "fulfilled", status |-> s, body |-> "completion",
           content |-> c] :
             s \in {200, 401, 503}, c \in Contents}

\* how a call ends
Returns(v) == [kind |-> "returned", value |-> v]

Throws(message) == [kind |-> "thrown", value |-> message]

-----------------------------------------------------------------------------
(* AITransactionExtractor *)

\* the arrays categorizeTransactions and extractClientNames are called with
AITransactions == {
    << >>,
    << [date |-> "02/01/2025", valeur |-> "02/01/2025", nature |-> "LOYER",
        debit |-> "11,24", credit |-> "null", source |-> "AI"] >>,
    << [date |-> "02/01/2025", valeur |-> "02/01/2025", nature |-> "LOYER",
        debit |-> "11,24", credit |-> "null", source |-> "AI"],
       [date |-> "03/01/2025", valeur |-> "03/01/2025", nature |-> "ORANGE",
        debit |-> "2 000,00", credit |-> "null", source |-> "AI"] >> }

\* parseAIResponse(aiResponse) of the class
ParseAIResponse(content) ==
    IF content.parse # "object"
    THEN Throws(<< "Failed to parse AI response: ", "Unexpected token" >>)
    ELSE IF content.field # "transactions"
    THEN Throws(<< "Failed to parse AI response: ",
                   "Invalid AI response format" >>)
    ELSE Returns([k \in 1..Len(content.items) |->
                    [date |-> content.items[k].date,
                     valeur |-> OrDefault(content.items[k].valeur,
                                          content.items[k].date),
                     nature |-> content.items[k].description,
                     debit |-> content.items[k].amount,
                     credit |-> "null",
                     source |-> "AI"]])

\* extractTransactions once fetch has settled: the try block, and the catch
\* block that wraps whatever the try block throws
ExtractTransactions(reply) ==
    LET try == IF reply.settled = "rejected"
               THEN Throws(<< "Failed to fetch" >>)
               ELSE IF ~IsOk(reply.status)
               THEN Throws(<< "OpenAI API error: ", ToString(reply.status) >>)
               ELSE IF reply.body # "completion"
               THEN Throws(<< "no completion: ", reply.body >>)
               ELSE ParseAIResponse(reply.content)
    IN  IF try.kind = "thrown"
        THEN Throws(<< "AI extraction failed: " >> \o try.value)
        ELSE try

\* the try block of categorizeTransactions and extractClientNames throws:
\* fetch rejected, the body is no completion, its content is not JSON, or
\* the callback of map reads .find of an array the content does not hold
ApplyThrows(txs, reply, field) ==
    \/ reply.settled = "rejected"
    \/ reply.body # "completion"
    \/ reply.content.parse # "object"
    \/ (reply.content.field # field /\ txs # << >>)

\* `items.find(c => c.index === index)?.[field] || default`
FoundOr(items, index, field, default) ==
    LET found == SelectSeq(items, LAMBDA c : c.index = index)
    IN  IF found = << >> THEN default ELSE OrDefault(found[1][field], default)

\* categorizeTransactions: a return on both paths
CategorizeTransactions(txs, reply) ==
    IF ApplyThrows(txs, reply, "categorized")
    THEN Returns([k \in 1..Len(txs) |->
                    [category |-> "AUTRES", confidence |-> "low"] @@ txs[k]])
    ELSE Returns([k \in 1..Len(txs) |->
                    [category |->
                        FoundOr(reply.content.items, k, "category", "AUTRES"),
                     confidence |->
                        FoundOr(reply.content.items, k, "confidence", "low")]
                        @@ txs[k]])

\* extractClientNames: a return on both paths
ExtractClientNames(txs, reply) ==
    IF ApplyThrows(txs, reply, "clients")
    THEN Returns([k \in 1..Len(txs) |->
                    [client_name |-> "Unknown Client"] @@ txs[k]])
    ELSE Returns([k \in 1..Len(txs) |->
                    [client_name |->
                        FoundOr(reply.content.items, k, "client_name",
                                "Unknown Client")] @@ txs[k]])

-----------------------------------------------------------------------------
(* POST /api/extract-transactions of the server *)

\* a check that lets the empty string pass
NotPresent(body) == ~body.present

\* !pdfText
NoPdfText(body) == ~body.present \/ body.pdfText = ""

\* res.status(status).json({error, message}), and res.json({success: true,
\* transactions, message}) with the status of 200 it has by default
Response(status, error, message, txs) ==
    [status |-> status, error |-> error, message |-> message,
     transactions |-> txs]

\* parseAIResponse(aiResponse) of the server: a content that is cut off is
\* closed after its last complete transaction and parsed
ServerParseAIResponse(content) ==
    IF \/ content.parse = "error"
       \/ (content.parse = "truncated" /\ content.items = << >>)
    THEN Throws(<< "Failed to parse AI response: ", "Unexpected token" >>)
    ELSE IF content.field # "transactions"
    THEN Throws(<< "Failed to parse AI response: ",
                   "Invalid AI response format - missing transactions array" >>)
    ELSE Returns([k \in 1..Len(content.items) |->
                    [date |-> content.items[k].date,
                     valeur |-> OrDefault(content.items[k].valeur,
                                          content.items[k].date),
                     description |-> content.items[k].description,
                     amount |-> content.items[k].amount,
                     client |-> content.items[k].client,
                     type |-> OrDefault(content.items[k].type, "debit")]])

\* the response of the handler once fetch has settled: that of the try
\* block, where the body of a response that is not OK is read before its
\* status is relayed, or the 500 of the catch block for what the try block
\* throws
HandlerResponse(reply) ==
    LET parsed == ServerParseAIResponse(reply.content)
        try == IF reply.settled = "rejected"
               THEN Throws(<< "fetch failed" >>)
               ELSE IF ~IsOk(reply.status)
               THEN IF reply.body = "streamError"
                    THEN Throws(<< "terminated" >>)
                    ELSE Returns(Response(reply.status, "OpenAI API error",
                                          << ToString(reply.status) >>, << >>))
               ELSE IF reply.body # "completion"
               THEN Throws(<< "no completion: ", reply.body >>)
               ELSE IF parsed.kind = "thrown" THEN parsed
               ELSE Returns(Response(200, "", << "Extracted" >>, parsed.value))
    IN  IF try.kind = "thrown"
        THEN Response(500, "Internal server error", try.value, << >>)
        ELSE try.value

-----------------------------------------------------------------------------
(* Inputs *)

\* the most sample lines joined into one text
MaxLines == 2

\* lines of statement text: a section header, rows without any keyword
\* (two dates, one date, digits before the amount, no amount), a row with
\* text after the amount, a continuation line and an empty line
SampleLines == {
    <<"D","a","t","e"," ","V","a","l","e","u","r">>,
    <<"2","4","/","0","1","/","2","0","2","5"," ","2","4","/","0","1","/","2","0","2","5"," ","Z","Z","Z"," ","1","1",",","2","4">>,
    <<"2","4","/","0","1","/","2","0","2","5"," ","2","4","/","0","1","/","2","0","2","5"," ","Z","Z","Z"," ","1","1",",","2","4"," ","V","I","R"," ","R","E","C","U">>,
    <<"2","4","/","0","1","/","2","0","2","5"," ","Z","Z","Z"," ","1","1",",","2","4">>,
    <<"2","4","/","0","1","/","2","0","2","5"," ","2","4","/","0","1","/","2","0","2","5"," ","R","E","F"," ","1","2","3","4","5"," ","6","7",",","8","9">>,
    <<"2","4","/","0","1","/","2","0","2","5"," ","2","4","/","0","1","/","2","0","2","5"," ","Z","Z","Z">>,
    <<"S","U","I","T","E"," ","1","1",",","2","4">>,
    << >> }

\* ls.join('\n')
RECURSIVE Join(_)
Join(ls) ==
    IF Len(ls) = 1 THEN ls[1]
    ELSE ls[1] \o << NL >> \o Join(Tail(ls))

\* the row of scenario 1 alone, the rows of the scenarios under a section
\* header, a statement with a credit row and a debit row, one with a row
\* wrapped over two lines, two with two wrapped rows (of two days, and the
\* same row twice), one with a row before the header and a row with an
\* amount and a continuation line after it, and one with a row wrapped over
\* more lines than the scan joins
ScenarioTexts == {
    <<"0","2","/","0","1","/","2","0","2","5"," ","0","2","/","0","1","/","2","0","2","5"," ","V","I","R"," ","I","N","S","T","A","N","T","A","N","E"," ","E","M","I","S"," ","N","E","T"," ","P","O","U","R",":"," ","M","."," ","J","O","R","G","E"," ","G","O","E","N","A","G","A"," ","P","E","R","E","Z"," ","2"," ","0","0","0",",","0","0">>,
    Join(<< <<"D","a","t","e"," ","V","a","l","e","u","r">>,
            <<"0","2","/","0","1","/","2","0","2","5"," ","0","2","/","0","1","/","2","0","2","5"," ","V","I","R"," ","I","N","S","T","A","N","T","A","N","E"," ","E","M","I","S"," ","N","E","T"," ","P","O","U","R",":"," ","M","."," ","J","O","R","G","E"," ","G","O","E","N","A","G","A"," ","P","E","R","E","Z"," ","2"," ","0","0","0",",","0","0">> >>),
    Join(<< <<"D","a","t","e"," ","V","a","l","e","u","r">>,
            <<"2","7","/","0","2","/","2","0","2","5"," ","2","7","/","0","2","/","2","0","2","5"," ","R","E","M","I","S","E"," ","C","B"," ","2","4","/","0","1"," ","R","7","0","3","0","4"," ","C","T","3","6","6","3","1","9","8","8","5","0","1"," ","1","7","9",",","3","7">> >>),
    Join(<< <<"D","a","t","e"," ","V","a","l","e","u","r">>,
            <<"2","4","/","0","1","/","2","0","2","5"," ","2","4","/","0","1","/","2","0","2","5"," ","C","A","R","T","E"," ","X","2","1","4","8"," ","2","3","/","0","1"," ","C","A","R","R","E","F","O","U","R"," ","C","I","T","Y"," ","1","1",",","2","4">> >>),
    Join(<< <<"D","a","t","e"," ","V","a","l","e","u","r">>,
            <<"2","7","/","0","2","/","2","0","2","5"," ","2","7","/","0","2","/","2","0","2","5"," ","R","E","M","I","S","E"," ","C","B"," ","2","4","/","0","1"," ","R","7","0","3","0","4"," ","C","T","3","6","6","3","1","9","8","8","5","0","1"," ","1","7","9",",","3","7">>,
            <<"2","4","/","0","1","/","2","0","2","5"," ","2","4","/","0","1","/","2","0","2","5"," ","Z","Z","Z"," ","1","1",",","2","4">> >>),
    Join(<< <<"D","a","t","e"," ","V","a","l","e","u","r">>,
            <<"2","4","/","0","1","/","2","0","2","5"," ","2","4","/","0","1","/","2","0","2","5"," ","Z","Z","Z">>,
            <<"S","U","I","T","E"," ","1","1",",","2","4">> >>),
    Join(<< <<"D","a","t","e"," ","V","a","l","e","u","r">>,
            <<"2","4","/","0","1","/","2","0","2","5"," ","2","4","/","0","1","/","2","0","2","5"," ","Z","Z","Z">>,
            <<"S","U","I","T","E"," ","1","1",",","2","4">>,
            <<"2","5","/","0","1","/","2","0","2","5"," ","2","5","/","0","1","/","2","0","2","5"," ","Z","Z","Z">>,
            <<"S","U","I","T","E"," ","1","1",",","2","4">> >>),
    Join(<< <<"D","a","t","e"," ","V","a","l","e","u","r">>,
            <<"2","4","/","0","1","/","2","0","2","5"," ","2","4","/","0","1","/","2","0","2","5"," ","Z","Z","Z">>,
            <<"S","U","I","T","E"," ","1","1",",","2","4">>,
            <<"2","4","/","0","1","/","2","0","2","5"," ","2","4","/","0","1","/","2","0","2","5"," ","Z","Z","Z">>,
            <<"S","U","I","T","E"," ","1","1",",","2","4">> >>),
    Join(<< <<"2","4","/","0","1","/","2","0","2","5"," ","2","4","/","0","1","/","2","0","2","5"," ","Z","Z","Z"," ","1","1",",","2","4">>,
            <<"D","a","t","e"," ","V","a","l","e","u","r">>,
            <<"2","4","/","0","1","/","2","0","2","5"," ","Z","Z","Z"," ","1","1",",","2","4">>,
            <<"S","U","I","T","E"," ","1","1",",","2","4">> >>),
    Join(<< <<"D","a","t","e"," ","V","a","l","e","u","r">>,
            <<"2","4","/","0","1","/","2","0","2","5"," ","2","4","/","0","1","/","2","0","2","5"," ","Z","Z","Z">>,
            <<"S","U","I","T","E">>,
            <<"S","U","I","T","E"," ","1","1",",","2","4">>,
            <<"S","U","I","T","E"," ","1","1",",","2","4">> >>) }

\* the arguments of parseTransactions: the scenarios, and every text of up
\* to MaxLines sample lines
Texts ==
    ScenarioTexts \cup
    {Join(ls) : ls \in UNION {[1..n -> SampleLines] : n \in 1..MaxLines}}

\* the texts of the runs that call parseTransactions again and again
RepeatTexts == {
    <<"2","4","/","0","1","/","2","0","2","5"," ","2","4","/","0","1","/","2","0","2","5"," ","Z","Z","Z"," ","1","1",",","2","4">>,
    <<"2","7","/","0","2","/","2","0","2","5"," ","2","7","/","0","2","/","2","0","2","5"," ","R","E","M","I","S","E"," ","C","B"," ","2","4","/","0","1"," ","R","7","0","3","0","4"," ","C","T","3","6","6","3","1","9","8","8","5","0","1"," ","1","7","9",",","3","7">>,
    <<"D","a","t","e"," ","V","a","l","e","u","r">> \o << NL >> \o <<"2","4","/","0","1","/","2","0","2","5"," ","2","4","/","0","1","/","2","0","2","5"," ","R","E","F"," ","1","2","3","4","5"," ","6","7",",","8","9">>,
    <<"2","4","/","0","1","/","2","0","2","5"," ","2","4","/","0","1","/","2","0","2","5"," ","Z","Z","Z">> \o << NL >> \o <<"S","U","I","T","E"," ","1","1",",","2","4">>,
    << >> }

\* arguments of the direct calls of isDebitTransaction and
\* categorizeTransaction
SampleStrings == {
    << >>, <<"Z","Z","Z">>, <<"V","I","R">>, <<"R","E","C","U">>, <<"v","i","r"," ","r","e","c","u">>, <<"V","I","R"," ","R","E","C","U"," ","F","R","A","I","S">>,
    <<"R","e","m","i","s","e"," ","c","b"," ","c","a","r","t","e">>, <<"C","A","R","T","E"," ","X","2","1","4","8">>, <<"E","N","C","A","I","S","S","E","M","E","N","T"," ","L","O","Y","E","R">>,
    <<"P","R","E","L","E","V","E","M","E","N","T"," ","C","R","E","D","I","T"," ","C","A","B","I","N","E","T">>, <<"L","E","A","S","I","N","G"," ","X"," ","M","O","T","O">>, <<"O","r","a","n","g","e"," ","s","a">> }

\* more descriptions for the direct calls of categorizeTransaction and
\* extractClientName: category names next to fuzzy keywords, the markers of
\* the client rules with and without a name after them, prefixes, short
\* words, digits and punctuation
DescriptionSamples == {
    <<"F","r","a","i","s"," ","a","s","s","u","r","a","n","c","e">>, <<"F","R","A","I","S"," ","A","U","T","R","E","S">>, <<"A","U","T","R","E","S">>, <<"P","A","I","E","M","E","N","T"," ","O","R","A","N","G","E">>,
    <<"C","O","T","I","S","A","T","I","O","N"," ","C","A","R","T","E"," ","U","R","S","S","A","F">>,
    <<"V","I","R"," ","I","N","S","T","A","N","T","A","N","E"," ","E","M","I","S"," ","N","E","T"," ","P","O","U","R",":"," ","M","."," ","J","O","R","G","E"," ","G","O","E","N","A","G","A"," ","P","E","R","E","Z">>,
    <<"V","I","R"," ","I","N","S","T","A","N","T","A","N","E"," ","E","M","I","S"," ","N","E","T"," ","P","O","U","R",":"," ","1","2","3"," ","A","B","C">>,
    <<"V","I","R"," ","I","N","S","T","A","N","T","A","N","E"," ","E","M","I","S"," ","N","E","T">>,
    <<"P","R","E","L","E","V","E","M","E","N","T"," ","E","U","R","O","P","E","E","N"," ","1","2","3"," ","D","E",":"," ","O","R","A","N","G","E"," ","S","A"," ","4","5","6">>,
    <<"P","R","E","L","E","V","E","M","E","N","T"," ","E","U","R","O","P","E","E","N"," ","S","E","P","A"," ","O","R","A","N","G","E">>,
    <<"M","."," ","J","O","R","G","E"," ","G","O","E","N","A","G","A"," ","P","E","R","E","Z">>, <<"J","O","R","G","E"," ","G","O","E","N","A","G","A"," ","P","E","R","E","Z">>,
    <<"P","O","U","R",":"," ","A","B">>, <<"V","I","R","E","M","E","N","T"," ","P","O","U","R",":"," ","D","U","P","O","N","T">>, <<"P","A","I","E","M","E","N","T"," ","P","A","R",":"," ","A","&","B"," ","C","I","E">>,
    <<"C","A","R","T","E"," ","X","2","1","4","8"," ","2","3","/","0","1"," ","C","A","R","R","E","F","O","U","R"," ","C","I","T","Y">>, <<"1","2"," ","3","4">>,
    <<"V","I","R"," ","I","N","S","T","A","N","T","A","N","E"," ","E","M","I","S"," ","N","E","T"," ","P","O","U","R",":">>,
    <<"P","R","E","L","E","V","E","M","E","N","T"," ","E","U","R","O","P","E","E","N"," ","D","E",":"," ","O","R","A","N","G","E"," ","V","I","R"," ","I","N","S","T","A","N","T","A","N","E"," ","E","M","I","S"," ","N","E","T"," ","P","O","U","R",":"," ","D","U","P","O","N","T"," ","1","2">> }

\* the arguments of the direct calls on a description
Descriptions == SampleStrings \cup DescriptionSamples

-----------------------------------------------------------------------------
(* The state machine *)

\* an array that would outlive the call
KeepTransactions(old) == old

\* const transactions = [] at the start of a call
NewTransactions(old) == << >>

\* the patterns array is built by each call: lastIndex starts at 0
NewLastIndex(old) == 0

\* patterns.length
NumPatterns == 3

\* lastIndex after a successful exec: the index after the match (0-based)
LastIndexAfter(m) == m.end - 1

Init ==
    /\ text = << >>
    /\ pc = "idle"
    /\ patIdx = 1
    /\ lastIndex = 0
    /\ transactions = << >>
    /\ origins = << >>
    /\ lines = << >>
    /\ i = 0
    /\ inOperationsSection = FALSE
    /\ lineTx = << >>
    /\ lineOrigins = << >>
    /\ result = << >>
    /\ resultOrigins = << >>
    /\ records = << >>
    /\ costCategories = ConstructorCategories
    /\ returned = {}
    /\ fnIn = << >>
    /\ fnOut = << >>
    /\ aiCall = [method |-> "none", argument |-> << >>]
    /\ aiPc = "idle"
    /\ aiReply = NoReply
    /\ aiOutcome = [kind |-> "pending", value |-> << >>]
    /\ apiKey = ""
    /\ request = [present |-> FALSE, pdfText |-> ""]
    /\ handlerPc = "down"
    /\ upstreamCalls = 0
    /\ upstreamReply = NoReply
    /\ sent = << >>

\* parseTransactions(t) is entered
Enter(t) ==
    /\ pc = "idle"
    /\ text' = t
    /\ lines' = Split(t)
    /\ transactions' = NewTransactions(transactions)
    /\ origins' = SubSeq(origins, 1, Len(NewTransactions(transactions)))
    /\ patIdx' = 1
    /\ lastIndex' = NewLastIndex(lastIndex)
    /\ i' = 0
    /\ inOperationsSection' = FALSE
    /\ lineTx' = << >>
    /\ lineOrigins' = << >>
    /\ result' = << >>
    /\ resultOrigins' = << >>
    /\ records' = << >>
    /\ pc' = "regex"
    /\ UNCHANGED << costCategories, returned, fnIn, fnOut >>
    /\ UNCHANGED << aiVars, serverVars >>

Call == pc = "idle" /\ \E t \in Texts : Enter(t)

CallAgain == pc = "idle" /\ \E t \in RepeatTexts : Enter(t)

\* one evaluation of `(match = pattern.exec(text)) !== null` and, on a
\* match, the body of the while loop; on null the loop of this pattern ends,
\* forEach goes on to the next pattern, and after the last pattern the line
\* scan starts
ExecStep ==
    /\ pc = "regex"
    /\ \E m \in {Exec(patIdx, text, lastIndex)} :
           IF m.ok
           THEN /\ lastIndex' = LastIndexAfter(m)
                /\ IF IsRegexDuplicate(transactions, m.date, m.nature, m.amount)
                   THEN UNCHANGED << transactions, origins >>
                   ELSE /\ transactions' =
                             Append(transactions, MatchTransaction(text, m))
                        /\ origins' = Append(origins,
                             [strategy |-> patIdx,
                              first |-> LineOf(text, m.start),
                              last |-> LineOf(text, m.end - 1)])
                /\ UNCHANGED << pc, patIdx >>
           ELSE /\ lastIndex' = 0
                /\ patIdx' = IF patIdx < NumPatterns THEN patIdx + 1 ELSE patIdx
                /\ pc' = IF patIdx < NumPatterns THEN "regex" ELSE "scan"
                /\ UNCHANGED << transactions, origins >>
    /\ UNCHANGED << text, lines, i, inOperationsSection, lineTx, lineOrigins,
                    result, resultOrigins, records, costCategories, returned,
                    fnIn, fnOut >>
    /\ UNCHANGED << aiVars, serverVars >>

\* one iteration of the for loop of parseTransactionsLineByLine
ScanLine ==
    /\ pc = "scan"
    /\ i < Len(lines)
    /\ \E it \in {ScanIteration(lines, i, inOperationsSection)} :
           /\ lineTx' = lineTx \o it.found
           /\ lineOrigins' = lineOrigins \o
                [k \in 1..Len(it.found) |->
                    [strategy |-> 4, first |-> i + 1, last |-> it.next]]
           /\ inOperationsSection' = it.inSection
           /\ i' = it.next
    /\ UNCHANGED << text, pc, patIdx, lastIndex, transactions, origins, lines,
                    result, resultOrigins, records, costCategories, returned, fnIn, fnOut >>
    /\ UNCHANGED << aiVars, serverVars >>

\* a merge that would put what the line scan found in front
RECURSIVE MergeInFront(_, _, _, _)
MergeInFront(txs0, orgs0, newTxs0, newOrgs0) ==
    Let2(txs0, orgs0, LAMBDA txs, orgs :
        Let2(newTxs0, newOrgs0, LAMBDA newTxs, newOrgs :
            IF newTxs = << >> THEN [txs |-> txs, orgs |-> orgs]
            ELSE IF IsMergeDuplicate(txs, Head(newTxs))
            THEN MergeInFront(txs, orgs, Tail(newTxs), Tail(newOrgs))
            ELSE MergeInFront(<< Head(newTxs) >> \o txs,
                              << Head(newOrgs) >> \o orgs,
                              Tail(newTxs), Tail(newOrgs))))

\* a return of the regex strategies' list without the merge
KeepRegexOnly(txs0, orgs0, newTxs0, newOrgs0) == [txs |-> txs0, orgs |-> orgs0]

\* the transactions the merge's forEach leaves, with their origins
RECURSIVE Merge(_, _, _, _)
Merge(txs0, orgs0, newTxs0, newOrgs0) ==
    Let2(txs0, orgs0, LAMBDA txs, orgs :
        Let2(newTxs0, newOrgs0, LAMBDA newTxs, newOrgs :
            IF newTxs = << >> THEN [txs |-> txs, orgs |-> orgs]
            ELSE IF IsMergeDuplicate(txs, Head(newTxs))
            THEN Merge(txs, orgs, Tail(newTxs), Tail(newOrgs))
            ELSE Merge(Append(txs, Head(newTxs)), Append(orgs, Head(newOrgs)),
                       Tail(newTxs), Tail(newOrgs))))

\* the for loop ends and parseTransactions merges what the scan returned
ScanDone ==
    /\ pc = "scan"
    /\ i >= Len(lines)
    /\ \E m \in {Merge(transactions, origins, lineTx, lineOrigins)} :
           /\ transactions' = m.txs
           /\ origins' = m.orgs
    /\ pc' = "merged"
    /\ UNCHANGED << text, patIdx, lastIndex, lines, i, inOperationsSection,
                    lineTx, lineOrigins, result, resultOrigins, records,
                    costCategories, returned, fnIn, fnOut >>
    /\ UNCHANGED << aiVars, serverVars >>

\* return transactions.filter(t => t.debit)
Return ==
    /\ pc = "merged"
    /\ result' = FilterDebit(transactions, transactions)
    /\ resultOrigins' = FilterDebit(transactions, origins)
    /\ pc' = "returned"
    /\ UNCHANGED << text, patIdx, lastIndex, transactions, origins, lines, i,
                    inOperationsSection, lineTx, lineOrigins, records,
                    costCategories, returned, fnIn, fnOut >>
    /\ UNCHANGED << aiVars, serverVars >>

\* processTransactions(result)
Process ==
    /\ pc = "returned"
    /\ records' = ProcessTransactions(costCategories, result)
    /\ pc' = "processed"
    /\ UNCHANGED << text, patIdx, lastIndex, transactions, origins, lines, i,
                    inOperationsSection, lineTx, lineOrigins, result,
                    resultOrigins, costCategories, returned,
                    fnIn, fnOut >>
    /\ UNCHANGED << aiVars, serverVars >>

\* the caller has the records; the extractor is ready for its next call
Finish ==
    /\ pc = "processed"
    /\ pc' = "idle"
    /\ returned' = returned \cup {<< text, result >>}
    /\ UNCHANGED << text, patIdx, lastIndex, transactions, origins, lines, i,
                    inOperationsSection, lineTx, lineOrigins, result,
                    resultOrigins, records, costCategories, fnIn, fnOut >>
    /\ UNCHANGED << aiVars, serverVars >>

\* a direct call of isDebitTransaction(line, nature)
CallIsDebitTransaction ==
    /\ pc = "idle"
    /\ \E line \in SampleStrings, nature \in SampleStrings :
          /\ fnIn' = << "isDebitTransaction", line, nature >>
          /\ fnOut' = IsDebitTransaction(line, nature)
    /\ UNCHANGED << text, pc, patIdx, lastIndex, transactions, origins, lines,
                    i, inOperationsSection, lineTx, lineOrigins, result,
                    resultOrigins, records, costCategories, returned >>
    /\ UNCHANGED << aiVars, serverVars >>

\* a direct call of categorizeTransaction(nature)
CallCategorizeTransaction ==
    /\ pc = "idle"
    /\ \E nature \in Descriptions :
          /\ fnIn' = << "categorizeTransaction", nature >>
          /\ fnOut' = CategorizeTransaction(costCategories, nature)
    /\ UNCHANGED << text, pc, patIdx, lastIndex, transactions, origins, lines,
                    i, inOperationsSection, lineTx, lineOrigins, result,
                    resultOrigins, records, costCategories, returned >>
    /\ UNCHANGED << aiVars, serverVars >>

\* a direct call of extractClientName(nature)
CallExtractClientName ==
    /\ pc = "idle"
    /\ \E nature \in Descriptions :
          /\ fnIn' = << "extractClientName", nature >>
          /\ fnOut' = ExtractClientName(nature)
    /\ UNCHANGED << text, pc, patIdx, lastIndex, transactions, origins, lines,
                    i, inOperationsSection, lineTx, lineOrigins, result,
                    resultOrigins, records, costCategories, returned >>
    /\ UNCHANGED << aiVars, serverVars >>

\* the steps of a running call
Step == ExecStep \/ ScanLine \/ ScanDone \/ Return \/ Process

\* one call of parseTransactions and processTransactions on any text
Next == Call \/ Step

Spec == Init /\ [][Next]_vars

\* the same, with a started call running on: JavaScript runs a call to its
\* end without giving way to anything else
FairSpec == Spec /\ WF_vars(Step)

\* calls one after the other on one extractor
NextRepeat == CallAgain \/ Step \/ Finish

SpecRepeat == Init /\ [][NextRepeat]_vars

\* direct calls of the classifiers
NextDirect ==
    \/ CallIsDebitTransaction
    \/ CallCategorizeTransaction
    \/ CallExtractClientName

SpecDirect == Init /\ [][NextDirect]_vars

-----------------------------------------------------------------------------
(* AITransactionExtractor: a method is called, its fetch settles, and the *)
(* method runs on to its return or throw                                   *)

\* the method is called and awaits its fetch
AICall(method, argument) ==
    /\ aiPc \in {"idle", "settled"}
    /\ aiCall' = [method |-> method, argument |-> argument]
    /\ aiPc' = "fetching"
    /\ aiReply' = NoReply
    /\ aiOutcome' = [kind |-> "pending", value |-> << >>]
    /\ UNCHANGED << extractorVars, serverVars >>

CallExtractTransactions == AICall("extractTransactions", << >>)

CallCategorizeTransactions ==
    \E txs \in AITransactions : AICall("categorizeTransactions", txs)

CallExtractClientNames ==
    \E txs \in AITransactions : AICall("extractClientNames", txs)

\* the promise of fetch settles
AIFetchSettles ==
    /\ aiPc = "fetching"
    /\ \E reply \in Replies : aiReply' = reply
    /\ aiPc' = "resumed"
    /\ UNCHANGED << aiCall, aiOutcome, extractorVars, serverVars >>

\* the method runs from its await to its end
AIResume ==
    /\ aiPc = "resumed"
    /\ aiOutcome' =
          IF aiCall.method = "extractTransactions"
          THEN ExtractTransactions(aiReply)
          ELSE IF aiCall.method = "categorizeTransactions"
          THEN CategorizeTransactions(aiCall.argument, aiReply)
          ELSE ExtractClientNames(aiCall.argument, aiReply)
    /\ aiPc' = "settled"
    /\ UNCHANGED << aiCall, aiReply, extractorVars, serverVars >>

NextAI ==
    \/ CallExtractTransactions
    \/ CallCategorizeTransactions
    \/ CallExtractClientNames
    \/ AIFetchSettles
    \/ AIResume

SpecAI == Init /\ [][NextAI]_vars

-----------------------------------------------------------------------------
(* The server: the handler registered first for the route serves every    *)
(* request, since it never calls next()                                    *)

\* app.listen: process.env.OPENAI_API_KEY is what dotenv has loaded, the
\* empty string standing for a variable that is not set
Listen ==
    /\ handlerPc = "down"
    /\ \E key \in {"", "sk-test"} : apiKey' = key
    /\ handlerPc' = "listening"
    /\ UNCHANGED << request, upstreamCalls, upstreamReply, sent,
                    extractorVars, aiVars >>

\* a request arrives and the handler is entered; req.body is what
\* express.json() made of the body, without pdfText or with one
Receive ==
    /\ handlerPc \in {"listening", "done"}
    /\ \E present \in BOOLEAN, pdfText \in {"", "releve 1", "releve 2"} :
          /\ present \/ pdfText = ""
          /\ request' = [present |-> present, pdfText |-> pdfText]
    /\ handlerPc' = "entered"
    /\ upstreamCalls' = 0
    /\ upstreamReply' = NoReply
    /\ sent' = << >>
    /\ UNCHANGED << apiKey, extractorVars, aiVars >>

\* the two checks, and the call of fetch when both pass
HandlerChecks ==
    /\ handlerPc = "entered"
    /\ IF NoPdfText(request)
       THEN /\ sent' = Append(sent, Response(400, "PDF text is required",
                                             << >>, << >>))
            /\ handlerPc' = "done"
            /\ UNCHANGED upstreamCalls
       ELSE IF apiKey = ""
       THEN /\ sent' = Append(sent,
                   Response(500, "OpenAI API key not configured", << >>,
                            << >>))
            /\ handlerPc' = "done"
            /\ UNCHANGED upstreamCalls
       ELSE /\ upstreamCalls' = upstreamCalls + 1
            /\ handlerPc' = "fetching"
            /\ UNCHANGED sent
    /\ UNCHANGED << apiKey, request, upstreamReply, extractorVars, aiVars >>

\* the promise of the handler's fetch settles
UpstreamSettles ==
    /\ handlerPc = "fetching"
    /\ \E reply \in Replies : upstreamReply' = reply
    /\ handlerPc' = "resumed"
    /\ UNCHANGED << apiKey, request, upstreamCalls, sent, extractorVars,
                    aiVars >>

\* the handler runs from its await to its end
HandlerResumes ==
    /\ handlerPc = "resumed"
    /\ sent' = Append(sent, HandlerResponse(upstreamReply))
    /\ handlerPc' = "done"
    /\ UNCHANGED << apiKey, request, upstreamCalls, upstreamReply,
                    extractorVars, aiVars >>

NextServer ==
    \/ Listen
    \/ Receive
    \/ HandlerChecks
    \/ UpstreamSettles
    \/ HandlerResumes

SpecServer == Init /\ [][NextServer]_vars

\* the same, with a started handler running on and every fetch settling:
\* the event loop resumes an async function whose promise has settled, and
\* fetch settles with a response or rejects with the error of the connection
FairSpecServer ==
    SpecServer /\ WF_vars(HandlerChecks \/ UpstreamSettles \/ HandlerResumes)
-----------------------------------------------------------------------------
(* Properties *)

\* the call has returned its list
Returned == pc \in {"returned", "processed"}

\* the amount of a candidate, whichever column holds it
AmountTextOf(t) == IF t.debit # Null THEN t.debit ELSE t.credit

\* the lines first..last of the text, joined the way the line scan joins them
RECURSIVE OriginText(_, _, _)
OriginText(ls, first, last) ==
    IF first >= last THEN Trim(ls[first])
    ELSE Trim(ls[first]) \o << " " >> \o OriginText(ls, first + 1, last)

\* C1: no returned record comes from a line that contains a credit keyword
DebitOnlyFiltering ==
    Returned =>
        \A k \in 1..Len(result) :
            \A l \in (resultOrigins[k].first)..(resultOrigins[k].last) :
                ~SomeIncluded(creditKeywords, lines[l])

\* the duplicate predicate as the data model states it, at the length of the
\* regex strategies: same date, same amount text, and descriptions whose
\* leading characters are equal or one contained in the other
StatedDuplicates(a, b) ==
    /\ a.date = b.date
    /\ AmountTextOf(a) = AmountTextOf(b)
    /\ LET x == Substring0(a.nature, RegexPrefixLen)
           y == Substring0(b.nature, RegexPrefixLen)
       IN  x = y \/ Includes(x, y) \/ Includes(y, x)

\* C2: after all strategies have run, the candidate list holds no two
\* candidates that are duplicates of each other
DedupInvariant ==
    pc \in {"merged", "returned", "processed"} =>
        \A k \in 1..Len(transactions), h \in 1..Len(transactions) :
            k < h => ~StatedDuplicates(transactions[k], transactions[h])

\* s is t with zero or more elements appended
IsPrefixOf(t, s) == Len(t) <= Len(s) /\ SubSeq(s, 1, Len(t)) = t

\* match m is a candidate with the date, amount and description prefix of t
SameCandidate(t, m) ==
    /\ t.date = m.date
    /\ AmountTextOf(t) = m.amount
    /\ Substring0(t.nature, RegexPrefixLen)
         = Substring0(Trim(m.nature), RegexPrefixLen)

\* C3: a match with the date, amount and description prefix of a retained
\* candidate is dropped, and the retained list is only ever appended to
FirstSeenWins ==
    [][ /\ pc # "idle" => IsPrefixOf(transactions, transactions')
        /\ (/\ pc = "regex"
            /\ Exec(patIdx, text, lastIndex).ok
            /\ \E k \in 1..Len(transactions) :
                  SameCandidate(transactions[k], Exec(patIdx, text, lastIndex)))
           => transactions' = transactions ]_vars

\* the category enumeration of the glossary
GlossaryCategories == {
    <<"M","A","S","S","E"," ","S","A","L","A","R","I","A","L","E">>, <<"F","R","A","I","S"," ","B","A","N","Q","U","E">>, <<"I","N","T","E","R","N","E","T">>, <<"A","S","S","U","R","A","N","C","E">>,
    <<"L","O","Y","E","R"," ","C","A","B","I","N","E","T">>, <<"G","Y","M">>, <<"C","H","A","R","G","E","S"," ","S","O","C","I","A","L","E","S">>, <<"L","E","A","S","I","N","G"," ","M","O","T","O">>,
    <<"L","E","A","S","I","N","G"," ","V","O","I","T","U","R","E">>, <<"M","U","T","U","E","L","L","E">>, <<"M","A","T","E","R","I","E","L"," ","C","A","B","I","N","E","T">>,
    <<"L","O","G","I","C","I","E","L"," ","C","A","B","I","N","E","T">>, <<"P","R","E","V","O","Y","A","N","C","E">>, <<"T","P","E"," ","B","A","N","Q","U","E">>, <<"A","U","T","R","E","S">> }

DirectCallOf(name) == fnIn # << >> /\ fnIn[1] = name

\* C4: categorizeTransaction returns a category of the glossary's
\* enumeration and a confidence of high, medium or low
CategoryTotality ==
    DirectCallOf("categorizeTransaction") =>
        /\ fnOut.category \in GlossaryCategories
        /\ fnOut.confidence \in {"high", "medium", "low"}

\* one of debit and credit holds a non-empty string and the other is null
ExactlyOneColumn(t) ==
    \/ t.debit # Null /\ Len(t.debit) > 0 /\ t.credit = Null
    \/ t.credit # Null /\ Len(t.credit) > 0 /\ t.debit = Null

\* C5: every transaction object of the regex strategies and of
\* parseTransactionLine has exactly one of debit and credit populated
ColumnExclusivity ==
    /\ \A k \in 1..Len(transactions) : ExactlyOneColumn(transactions[k])
    /\ \A k \in 1..Len(lineTx) : ExactlyOneColumn(lineTx[k])
    /\ (pc = "scan" /\ i < Len(lines) /\ ParsesAsTransaction(Trim(lines[i + 1])))
          => ExactlyOneColumn(ParseTransactionLine(Trim(lines[i + 1])))

\* the regex strategies have left a debit and a credit candidate, and the
\* line scan has parsed a line into a transaction object
ColumnExclusivityWitness ==
    /\ \E k \in 1..Len(transactions) : transactions[k].debit # Null
    /\ \E k \in 1..Len(transactions) : transactions[k].credit # Null
    /\ lineTx # << >>

\* the amount grammar of the data model, of the whole string:
\* digit{1,3}(\s?digit{3})*,digit{2} or digit+,digit{2}
IsAmountText(a) ==
    \/ GroupedAmountEnd(a, 1, TRUE) = Len(a) + 1
    \/ PlainAmountEnd(a, 1) = Len(a) + 1

\* C6: the amount of every candidate of every strategy, and the debit of
\* every returned record, matches the amount grammar
AmountGrammar ==
    /\ \A k \in 1..Len(transactions) : IsAmountText(AmountTextOf(transactions[k]))
    /\ \A k \in 1..Len(lineTx) : IsAmountText(AmountTextOf(lineTx[k]))
    /\ \A k \in 1..Len(result) : IsAmountText(result[k].debit)

\* C7: every started call ends with the records of processTransactions;
\* lastIndex grows with every match of a pattern, the index of the line
\* scan grows with every iteration, and processTransactions finds a debit
\* string in every transaction it is given
Totality ==
    /\ [][(pc = "regex" /\ pc' = "regex" /\ patIdx' = patIdx)
             => lastIndex' > lastIndex]_vars
    /\ [][(pc = "scan" /\ pc' = "scan") => i' > i]_vars
    /\ [](Returned => \A k \in 1..Len(result) : Truthy(result[k].debit))
    /\ (pc # "idle") ~> (pc = "processed")

\* a call ended with records, after a scan that consumed continuation lines
TotalityWitness ==
    /\ pc = "processed"
    /\ Len(records) > 0
    /\ \E k \in 1..Len(lineOrigins) : lineOrigins[k].last > lineOrigins[k].first

\* C8: a call returns what every finished call on the same text returned
Determinism ==
    Returned => \A r \in returned : r[1] = text => r[2] = result

\* the text was parsed before, calls on two other texts have finished too,
\* and the list returned is not empty
DeterminismWitness ==
    /\ Returned
    /\ \E r \in returned : r[1] = text
    /\ Cardinality(returned) >= 3
    /\ Len(result) > 0

\* C9: isDebitTransaction returns false whenever the upper-cased line and
\* nature hold a credit keyword
CreditPrecedence ==
    (/\ DirectCallOf("isDebitTransaction")
     /\ SomeIncluded(creditKeywords, UpperLine(fnIn[2], fnIn[3])))
        => fnOut = FALSE

\* a call with a credit and a debit keyword, the credit keyword not in
\* upper case
CreditPrecedenceWitness ==
    /\ DirectCallOf("isDebitTransaction")
    /\ SomeIncluded(creditKeywords, UpperLine(fnIn[2], fnIn[3]))
    /\ ~SomeIncluded(creditKeywords, fnIn[2] \o << " " >> \o fnIn[3])
    /\ SomeIncluded(debitKeywords, UpperLine(fnIn[2], fnIn[3]))
    /\ fnOut = FALSE

\* candidate k was found in text that holds no keyword, and neither does its
\* description
KeywordFree(k) ==
    LET u == UpperLine(OriginText(lines, origins[k].first, origins[k].last),
                       transactions[k].nature)
    IN  ~SomeIncluded(creditKeywords, u) /\ ~SomeIncluded(debitKeywords, u)

\* C10: isDebitTransaction answers with a boolean for the line and the
\* description of every candidate; a candidate without any keyword is a
\* debit, and is in the list the call returns
DefaultDebitPolicy ==
    pc \in {"merged", "returned"} =>
    \A k \in 1..Len(transactions) :
        /\ IsDebitTransaction(
               OriginText(lines, origins[k].first, origins[k].last),
               transactions[k].nature) \in BOOLEAN
        /\ KeywordFree(k) =>
              /\ transactions[k].debit # Null
              /\ transactions[k].credit = Null
              /\ Returned => \E h \in 1..Len(result) : result[h] = transactions[k]

\* a candidate without any keyword is in the returned list
DefaultDebitPolicyWitness ==
    /\ Returned
    /\ \E k \in 1..Len(transactions) :
          /\ KeywordFree(k)
          /\ \E h \in 1..Len(result) : result[h] = transactions[k]

\* the upper-cased argument of a direct call on a description
UpperArgument == ToUpperCase(fnIn[2])

\* the names of the glossary's enumeration that the description contains
ContainedCategories ==
    {c \in GlossaryCategories : Includes(UpperArgument, c)}

\* C11: when the upper-cased description contains the name of a category of
\* the enumeration, categorizeTransaction returns a category whose name the
\* description contains, with confidence high, whatever the fuzzy table
\* holds
ExactMatchPrecedence ==
    (DirectCallOf("categorizeTransaction") /\ ContainedCategories # {}) =>
        /\ fnOut.category \in ContainedCategories
        /\ fnOut.confidence = "high"

\* the categories of the fuzzy table in the order they are declared in
DeclarationOrder == <<
    <<"M","A","S","S","E"," ","S","A","L","A","R","I","A","L","E">>, <<"F","R","A","I","S"," ","B","A","N","Q","U","E">>, <<"I","N","T","E","R","N","E","T">>, <<"A","S","S","U","R","A","N","C","E">>,
    <<"L","O","Y","E","R"," ","C","A","B","I","N","E","T">>, <<"G","Y","M">>, <<"C","H","A","R","G","E","S"," ","S","O","C","I","A","L","E","S">>, <<"L","E","A","S","I","N","G"," ","M","O","T","O">>,
    <<"L","E","A","S","I","N","G"," ","V","O","I","T","U","R","E">>, <<"M","U","T","U","E","L","L","E">>, <<"M","A","T","E","R","I","E","L"," ","C","A","B","I","N","E","T">>,
    <<"L","O","G","I","C","I","E","L"," ","C","A","B","I","N","E","T">>, <<"P","R","E","V","O","Y","A","N","C","E">>, <<"T","P","E"," ","B","A","N","Q","U","E">> >>

\* a keyword of the k-th declared category matches the description
Satisfied(k) ==
    \E r \in 1..Len(fuzzyRules) :
        /\ fuzzyRules[r].category = DeclarationOrder[k]
        /\ RuleMatches(fuzzyRules[r], UpperArgument)

\* C12: when the description contains no category name, categorizeTransaction
\* returns the first category of the declaration order that has a matching
\* keyword, with confidence medium
FuzzyDeclarationOrder ==
    (DirectCallOf("categorizeTransaction") /\ ContainedCategories = {}) =>
        \A k \in 1..Len(DeclarationOrder) :
            (Satisfied(k) /\ \A j \in 1..(k - 1) : ~Satisfied(j)) =>
                /\ fnOut.category = DeclarationOrder[k]
                /\ fnOut.confidence = "medium"

\* C13: extractClientName returns a string that holds more than whitespace
ClientNameNeverBlank ==
    DirectCallOf("extractClientName") => Trim(fnOut) # << >>

\* the description holds the marker with something other than whitespace
\* after it
MarkerWithText(s, marker) ==
    \E p \in 1..Len(s) :
        /\ StartsWithAt(s, p, marker)
        /\ Trim(SubSeq(s, p + Len(marker), Len(s))) # << >>

\* C14: for a description with text after a POUR: or DE: marker,
\* extractClientName returns a name that is not empty and not Unknown Client
CounterpartyNonDegeneracy ==
    (/\ DirectCallOf("extractClientName")
     /\ \/ MarkerWithText(fnIn[2], <<"P","O","U","R",":">>)
        \/ MarkerWithText(fnIn[2], <<"D","E",":">>))
        => (fnOut # << >> /\ fnOut # UnknownClient)

\* C15: extractClientName applied to a name it returned returns that name
ClientNameIdempotence ==
    DirectCallOf("extractClientName") => ExtractClientName(fnOut) = fnOut

Scenario1Row ==
    <<"0","2","/","0","1","/","2","0","2","5"," ","0","2","/","0","1","/","2","0","2","5"," ","V","I","R"," ","I","N","S","T","A","N","T","A","N","E"," ","E","M","I","S"," ","N","E","T"," ","P","O","U","R",":"," ","M","."," ","J","O","R","G","E"," ","G","O","E","N","A","G","A"," ","P","E","R","E","Z"," ","2"," ","0","0","0",",","0","0">>

\* C16: for the row of scenario 1, the records hold one with date 02/01/2025,
\* client M. JORGE GOENAGA PEREZ, category MASSE SALARIALE, confidence high
\* or medium, and movement type transfer
Scenario1Record ==
    (pc = "processed" /\ text = Scenario1Row) =>
        \E k \in 1..Len(records) :
            /\ records[k].date = <<"0","2","/","0","1","/","2","0","2","5">>
            /\ records[k].client = <<"M","."," ","J","O","R","G","E"," ","G","O","E","N","A","G","A"," ","P","E","R","E","Z">>
            /\ records[k].service = <<"M","A","S","S","E"," ","S","A","L","A","R","I","A","L","E">>
            /\ records[k].confidence \in {"high", "medium"}
            /\ records[k].typeOfMovement = "transfer"

\* C17: the amount of every record is the amount string of its transaction
\* as it stands in the text, spaces included
AmountPreservation ==
    pc = "processed" =>
        \A k \in 1..Len(records) :
            records[k].amountWithTaxes = result[k].debit

\* the origins are in the order of the strategies and, within a strategy,
\* in the order of the text
OrderedOrigins(orgs) ==
    \A k \in 1..Len(orgs), h \in 1..Len(orgs) :
        k < h =>
            /\ orgs[k].strategy <= orgs[h].strategy
            /\ orgs[k].strategy = orgs[h].strategy =>
                   orgs[k].first <= orgs[h].first

\* the elements of sub are elements of all, in the order they have there
RECURSIVE IsSubsequence(_, _)
IsSubsequence(sub, all) ==
    IF sub = << >> THEN TRUE
    ELSE IF all = << >> THEN FALSE
    ELSE IF Head(sub) = Head(all) THEN IsSubsequence(Tail(sub), Tail(all))
    ELSE IsSubsequence(sub, Tail(all))

\* C18: the candidates are ordered by the strategy that first found them
\* (strict, loose, single date, line scan) and within a strategy by their
\* place in the text; the returned list keeps that order
OutputOrder ==
    /\ pc \in {"merged", "returned", "processed"} => OrderedOrigins(origins)
    /\ Returned =>
          /\ OrderedOrigins(resultOrigins)
          /\ IsSubsequence(result, transactions)
          /\ IsSubsequence(resultOrigins, origins)

\* a returned list with a record of a regex strategy before a record that
\* only the line scan found, and two records of one strategy
OutputOrderWitness ==
    /\ Returned
    /\ \E k \in 1..Len(resultOrigins), h \in 1..Len(resultOrigins) :
          /\ k < h
          /\ resultOrigins[k].strategy < resultOrigins[h].strategy
          /\ resultOrigins[h].strategy = 4
    /\ Len(result) < Len(transactions)

\* C19: processTransactions returns one record for each transaction, in
\* order, the k-th with index k and the date and description of the k-th
\* transaction, and leaves the transactions as they are
Projection ==
    /\ [](pc = "processed" =>
            /\ Len(records) = Len(result)
            /\ \A k \in 1..Len(records) :
                  /\ records[k].index = k
                  /\ records[k].date = result[k].date
                  /\ records[k].rawNature = result[k].nature)
    /\ [][pc' = "processed" =>
            (result' = result /\ transactions' = transactions)]_vars

\* processTransactions has run on two transactions or more
ProjectionWitness ==
    /\ pc = "processed"
    /\ Len(result) >= 2
    /\ Len(records) = Len(result)

\* DD/MM/YYYY somewhere in s
ContainsDate(s) == \E p \in 1..Len(s) : IsDateAt(s, p)

\* digits, a comma and two digits somewhere in s
ContainsFrenchAmount(s) ==
    \E p \in 1..Len(s) :
        /\ IsDigit(s[p])
        /\ At(s, p + 1) = ","
        /\ IsDigit(At(s, p + 2))
        /\ IsDigit(At(s, p + 3))

\* C20: for a text without a date or without a French-formatted amount,
\* parseTransactions returns the empty list, and so does
\* processTransactions
MalformedInputIsEmpty ==
    (Returned /\ (~ContainsDate(text) \/ ~ContainsFrenchAmount(text))) =>
        /\ result = << >>
        /\ (pc = "processed" => records = << >>)

\* no regex strategy has pushed a candidate in this call
OnlyLineScan == \A k \in 1..Len(origins) : origins[k].strategy = 4

\* C21 as stated: when the regex strategies yield nothing, the call returns
\* the list of the line scan's debit candidates
LineScanOnlyExact ==
    (Returned /\ OnlyLineScan) => result = FilterDebit(lineTx, lineTx)

\* candidate k repeats the date, amount and first 20 description characters
\* of an earlier candidate of the list
RepeatsEarlier(txs, k) ==
    \E h \in 1..(k - 1) :
        /\ txs[h].date = txs[k].date
        /\ txs[h].debit = txs[k].debit
        /\ Substring0(txs[h].nature, MergePrefixLen)
             = Substring0(txs[k].nature, MergePrefixLen)

\* the list without the candidates that repeat an earlier one
RECURSIVE FirstOccurrences(_)
FirstOccurrences(txs) ==
    IF txs = << >> THEN << >>
    ELSE IF RepeatsEarlier(txs, Len(txs))
         THEN FirstOccurrences(SubSeq(txs, 1, Len(txs) - 1))
         ELSE Append(FirstOccurrences(SubSeq(txs, 1, Len(txs) - 1)),
                     txs[Len(txs)])

\* C21: when the regex strategies yield nothing, the call returns the line
\* scan's debit candidates in scan order, without those that repeat the
\* date, amount and first 20 description characters of an earlier one
IndependentStrategies ==
    (Returned /\ OnlyLineScan) =>
        result = FilterDebit(FirstOccurrences(lineTx), FirstOccurrences(lineTx))

\* a call in which only the line scan found candidates, from wrapped rows,
\* one of them a repetition
IndependentStrategiesWitness ==
    /\ Returned
    /\ OnlyLineScan
    /\ Len(result) >= 1
    /\ Len(lineTx) > Len(result)
    /\ \E k \in 1..Len(origins) : origins[k].first < origins[k].last

\* line h (1-based) of the text is a section header
HeaderLine(h) == IsSectionHeader(Trim(lines[h]))

\* C24: the line scan takes no candidate from a line before the first section
\* header nor from a header line, and once the scan is in the section it
\* stays in it for the rest of the call
SectionGating ==
    /\ [](\A k \in 1..Len(lineOrigins) :
            /\ \E h \in 1..(lineOrigins[k].first - 1) : HeaderLine(h)
            /\ ~HeaderLine(lineOrigins[k].first))
    /\ [][(pc # "idle" /\ inOperationsSection) => inOperationsSection']_vars

\* the scan is over: a row before the header gave nothing, a row after it
\* gave a candidate
SectionGatingWitness ==
    /\ pc = "merged"
    /\ inOperationsSection
    /\ ~HeaderLine(1) /\ ParsesAsTransaction(Trim(lines[1]))
    /\ HasLineAmount(Trim(lines[1]))
    /\ Len(lineTx) >= 1

\* line h (1-based) is one the while loop appends: not blank and not
\* starting with a date
ContinuationLine(h) ==
    /\ Trim(lines[h]) # << >>
    /\ ~StartsWithDate(Trim(lines[h]))

\* the scan is at a line of the section that starts with a date
AtDatedLine ==
    /\ pc = "scan"
    /\ i < Len(lines)
    /\ inOperationsSection
    /\ ~HeaderLine(i + 1)
    /\ StartsWithDate(Trim(lines[i + 1]))

\* C25: at a dated line of the section the scan joins the following lines up
\* to the first blank or dated one, two at most; it parses the joined text
\* only if the dated line holds no amount (and the dated line alone only if
\* it holds one); and it goes on after the last joined line
WrappedLineFallback ==
    [][AtDatedLine =>
        /\ i' - (i + 1) <= 2
        /\ \A h \in (i + 2)..i' : ContinuationLine(h)
        /\ (i' - (i + 1) < 2 /\ i' < Len(lines)) => ~ContinuationLine(i' + 1)
        /\ lineTx' = lineTx \o
              (IF HasLineAmount(Trim(lines[i + 1]))
               THEN PushedFor(Trim(lines[i + 1]))
               ELSE PushedFor(OriginText(lines, i + 1, i')))
      ]_vars

\* a dated line with an amount was followed by a continuation line which
\* the scan skipped, and a dated line without one was joined with two lines
\* while a third followed
WrappedLineFallbackWitness ==
    /\ pc = "scan"
    /\ \/ /\ i = Len(lines)
          /\ Len(lines) = 4
          /\ lineOrigins # << >>
          /\ lineOrigins[Len(lineOrigins)].first = 3
          /\ lineOrigins[Len(lineOrigins)].last = 4
          /\ HasLineAmount(Trim(lines[3]))
       \/ /\ i = 4
          /\ Len(lines) = 5
          /\ lineOrigins # << >>
          /\ lineOrigins[Len(lineOrigins)].first = 2
          /\ lineOrigins[Len(lineOrigins)].last = 4
          /\ ContinuationLine(5)

\* the description contains the name of a category other than the catch-all
ContainsCategoryName == ContainedCategories \ {Autres} # {}

\* the description matches a keyword of the fuzzy table
MatchesFuzzyKeyword == \E k \in 1..Len(DeclarationOrder) : Satisfied(k)

SalaryCall ==
    DirectCallOf("extractClientName") /\ Includes(fnIn[2], SalaryMarker)

PourMarker == <<"P","O","U","R",":">>

HasDigit(s) == \E k \in 1..Len(s) : IsDigit(s[k])

\* the text of s after the first marker up to the first digit after it
TextAfterMarker(s, marker) ==
    LET p == Least({q \in 1..Len(s) : StartsWithAt(s, q, marker)})
        a == p + Len(marker)
        e == Least({q \in a..(Len(s) + 1) : q = Len(s) + 1 \/ IsDigit(s[q])})
    IN  SubSeq(s, a, e - 1)

NamedMarkerAt(s, marker, p, g, e) ==
    /\ StartsWithAtIgnoreCase(s, p, marker)
    /\ p + Len(marker) <= g /\ g < e /\ e <= Len(s) + 1
    /\ \A r \in (p + Len(marker))..(g - 1) : IsSpace(s[r])
    /\ \A r \in g..(e - 1) : ~IsDigit(s[r]) /\ s[r] # NL
    /\ e = Len(s) + 1 \/ IsDigit(s[e]) \/ s[e] = NL

\* the marker at p of s has text after it
NamedMarker(s, marker, p) ==
    \E g \in 1..(Len(s) + 1), e \in 1..(Len(s) + 1) :
        NamedMarkerAt(s, marker, p, g, e)

GenericCall ==
    /\ DirectCallOf("extractClientName")
    /\ ~Includes(fnIn[2], SalaryMarker)
    /\ ~(/\ Includes(fnIn[2], DirectDebitMarker)
         /\ \E p \in 1..Len(fnIn[2]) : NamedMarker(fnIn[2], <<"D","E",":">>, p))

\* a letter, accented Latin letters among them, a digit, a space, a hyphen
\* or a period
IsNameCharacter(c) ==
    \/ c \in LowerCaseSet
    \/ c \in {UpperCase[k] : k \in 1..Len(UpperCase)}
    \/ c \in AccentedRange \ {"×", "÷"}
    \/ IsDigit(c)
    \/ c \in {" ", "-", "."}

\* the token is longer than 2, does not start with a digit and is not a
\* stopword
IsNameToken(w) ==
    /\ Len(w) > 2
    /\ ~IsDigit(w[1])
    /\ ToUpperCase(w) \notin stopWords

\* C28: the name the generic rule returns is made of at most 5 tokens joined
\* by single spaces, each longer than 2, not starting with a digit and not a
\* stopword, and holds only letters, digits, spaces, hyphens and periods
GenericClientRule ==
    GenericCall =>
        /\ Len(Words(fnOut)) <= 5
        /\ fnOut = JoinWords(Words(fnOut))
        /\ \A k \in 1..Len(Words(fnOut)) : IsNameToken(Words(fnOut)[k])
        /\ \A k \in 1..Len(fnOut) : IsNameCharacter(fnOut[k])

\* the text is one row in the dual-date layout: operation date, value date,
\* description, French amount, one space between them, and no credit
\* keyword
SingleDualDateRow(t) ==
    /\ \A k \in 1..Len(t) : t[k] # NL
    /\ IsDateAt(t, 1) /\ At(t, DateLen + 1) = " "
    /\ IsDateAt(t, DateLen + 2) /\ At(t, 2 * DateLen + 2) = " "
    /\ \E p \in (2 * DateLen + 5)..Len(t) :
          /\ t[p - 1] = " "
          /\ ~IsSpace(t[p - 2])
          /\ IsAmountText(SubSeq(t, p, Len(t)))
    /\ ~SomeIncluded(creditKeywords, ToUpperCase(t))

\* C29: for a text that is one row in the dual-date layout without a credit
\* keyword, parseTransactions returns exactly one record
OneRowOneRecord ==
    (Returned /\ SingleDualDateRow(text)) => Len(result) = 1

\* the step enters parseTransactions
EntersCall == pc = "idle" /\ pc' = "regex"

\* C22: no step of a call writes costCategories; a call starts with an empty
\* candidate list, patterns whose lastIndex is 0 and a line scan outside the
\* section, whatever the calls before it left; and what it returns is what
\* the calls on the same text returned before other texts were parsed
NoSharedMutableState ==
    /\ [](costCategories = ConstructorCategories)
    /\ [](Returned => \A r \in returned : r[1] = text => r[2] = result)
    /\ [][ /\ costCategories' = costCategories
           /\ EntersCall =>
                 /\ transactions' = << >> /\ origins' = << >>
                 /\ patIdx' = 1 /\ lastIndex' = 0
                 /\ lineTx' = << >> /\ lineOrigins' = << >>
                 /\ i' = 0 /\ ~inOperationsSection'
                 /\ result' = << >> /\ records' = << >> ]_vars

\* a call on a text has returned records after calls on two other texts,
\* one of them with records, and after an earlier call on the same text
NoSharedMutableStateWitness ==
    /\ pc = "processed"
    /\ Len(records) > 0
    /\ \E r \in returned : r[1] = text
    /\ \E r \in returned : r[1] # text /\ Len(r[2]) > 0
    /\ \E r \in returned : r[1] # text /\ Len(r[2]) = 0

\* the call of the service failed: fetch rejected, the status is not OK, or
\* the reply or its content is not JSON
UpstreamFailed ==
    \/ aiReply.settled = "rejected"
    \/ ~IsOk(aiReply.status)
    \/ aiReply.body \in {"streamError", "notJson"}
    \/ (aiReply.body = "completion" /\ aiReply.content.parse # "object")

\* C23: a method of AITransactionExtractor whose call of the service failed
\* ends with an error thrown to its caller, not with a returned value
SurfacedFailures ==
    (aiPc = "settled" /\ UpstreamFailed) => aiOutcome.kind = "thrown"

\* the request holds no pdfText, or an empty one
PdfTextMissingOrEmpty == ~request.present \/ request.pdfText = ""

\* an exception was raised after the two checks: fetch rejected, the body
\* could not be read, or the body of an OK response is no completion whose
\* content parses into an object with a transactions array
ExceptionRaised ==
    \/ upstreamReply.settled = "rejected"
    \/ upstreamReply.body = "streamError"
    \/ /\ IsOk(upstreamReply.status)
       /\ \/ upstreamReply.body # "completion"
          \/ upstreamReply.content.parse = "error"
          \/ upstreamReply.content.field # "transactions"
          \/ upstreamReply.content.items = << >>
                /\ upstreamReply.content.parse = "truncated"

\* the status of the response of a finished handler
SentStatus == sent[1].status

====
